---- MODULE Spec2Model ----
\* Model of the deterministic ROI engine (ROICalculator) of the
\* AI-Marketing-ROI-Calculator repository.
\*
\* Numbers.  The source computes on JavaScript numbers, binary floating
\* point with a significand of 53 bits in which every operation returns the
\* exact result rounded to nearest, ties to even.  The model keeps that
\* arithmetic and shortens the significand to Precision bits: a finite number
\* is a pair <<m, e>> standing for m * 2^e, with m odd, or <<0, 0>> for zero.
\* Pairs <<0, e>> with e # 0 stand for the values that are no finite number:
\* Infinity, -Infinity, NaN (the results of a division by zero) and undefined.
\* Exponents are unbounded (no overflow, no underflow) and there is no
\* negative zero; undefined converts to NaN in arithmetic.
EXTENDS Integers, Sequences, FiniteSets, TLC

VARIABLES
    tasks,                 \* WorkflowTask[]            (argument)
    recommendedTools,      \* RecommendedTool[]         (argument)
    teamSize,              \* number                    (argument)
    averageHourlyCost,     \* number                    (argument)
    revenueModel,          \* <<>> when not supplied, else <<RevenueModel>>
    trainingCostOneTime,   \* number or undefined       (argument)
    runsPerMonth,          \* number or undefined       (argument)
    scenarioMultiplier,    \* number or undefined       (argument)
    pc,                    \* "ready", or the function that has returned
    ret,                   \* the value that function returned
    rateLimitMap,          \* route.ts: identifier -> { count, resetTime, timestamps }
    now,                   \* Date.now() on the server, in milliseconds
    arrivals,              \* requests sent to the endpoint and not yet handled
    home,                  \* page.tsx: the state cells of the Home component
    userInputs             \* page.tsx: the argument of the handleGenerate in progress

vars == <<tasks, recommendedTools, teamSize, averageHourlyCost, revenueModel,
          trainingCostOneTime, runsPerMonth, scenarioMultiplier, pc, ret,
          rateLimitMap, now, arrivals, home, userInputs>>

args == <<tasks, recommendedTools, teamSize, averageHourlyCost, revenueModel,
          trainingCostOneTime, runsPerMonth, scenarioMultiplier>>

web == <<rateLimitMap, now, arrivals, home, userInputs>>

\* The server has started and has handled no request: const rateLimitMap = new Map()
ServerStarted ==
    /\ rateLimitMap = <<>>
    /\ now = 0
    /\ arrivals = <<>>

\* The page has rendered and nothing was submitted: the useState initial
\* values.  null is <<>> and a value v is <<v>>.
PageLoaded ==
    /\ home = [inputs |-> <<>>, benchmarks |-> <<>>, scenarios |-> <<>>,
               loading |-> FALSE, error |-> <<>>]
    /\ userInputs = <<>>

-----------------------------------------------------------------------------
\* Floating-point arithmetic

\* Bits of the significand (a JavaScript number has 53)
Precision == 13

Abs(i) == IF i < 0 THEN -i ELSE i
Sign(i) == IF i < 0 THEN -1 ELSE IF i = 0 THEN 0 ELSE 1
Pow2(k) == 2 ^ k

\* The number of bits of n >= 0
BitLen4(n) ==
    IF n < 4 THEN (IF n < 2 THEN n ELSE 2) ELSE (IF n < 8 THEN 3 ELSE 4)
BitLen8(n) == IF n < 16 THEN BitLen4(n) ELSE 4 + BitLen4(n \div 16)
BitLen16(n) == IF n < 256 THEN BitLen8(n) ELSE 8 + BitLen8(n \div 256)
BitLen(n) == IF n < 65536 THEN BitLen16(n) ELSE 16 + BitLen16(n \div 65536)

\* The number m * 2^e in canonical form: m odd, or <<0, 0>> for zero
RECURSIVE Canon(_, _)
Canon(m, e) ==
    IF m = 0 THEN <<0, 0>>
    ELSE IF m % 2 = 1 THEN <<m, e>>
    ELSE IF m % 16 = 0 THEN Canon(m \div 16, e + 4)
    ELSE Canon(m \div 2, e + 1)

\* The values that are no finite number
Infinity == <<0, 1>>
NegInfinity == <<0, -1>>
NaN == <<0, 2>>
undefined == <<0, 3>>
IsFinite(x) == x[1] # 0 \/ x[2] = 0
IsNaN(x) == x[1] = 0 /\ x[2] >= 2
\* -1, 0 or 1: the sign of a number that is not NaN
SignOf(x) == IF x[1] = 0 THEN x[2] ELSE IF x[1] < 0 THEN -1 ELSE 1

\* sign * (q + r / (2 * half)) * 2^e rounded to a whole multiple of 2^e: up
\* when the fraction is above one half, or is one half and q is odd or
\* further digits follow (sticky).
RoundUp(sign, q, r, half, e, sticky) ==
    Canon(sign * (IF r > half \/ (r = half /\ (sticky \/ q % 2 = 1))
                  THEN q + 1 ELSE q), e)

\* ... of which the last k bits of n do not fit the significand
RoundBits(sign, n, e, sticky, k) ==
    IF k <= 0
    THEN Canon(sign * n, e)
    ELSE RoundUp(sign, n \div Pow2(k), n % Pow2(k), Pow2(k - 1), e + k, sticky)

\* sign * (n + f) * 2^e rounded to Precision bits, to nearest, ties to even;
\* n >= 0, and f is a fraction in (0, 1) when sticky, 0 otherwise (sticky is
\* only used with an n of more than Precision bits).
RoundTo(sign, n, e, sticky) == RoundBits(sign, n, e, sticky, BitLen(n) - Precision)

\* An integer literal, and a decimal literal n/d
Num(i) == RoundTo(Sign(i), Abs(i), 0, FALSE)
Zero == <<0, 0>>
One == <<1, 0>>
Hundred == <<25, 2>>

\* The position above the leading bit of a non-zero number
Top(x) == x[2] + BitLen(Abs(x[1]))

Neg(x) ==
    IF IsNaN(x) THEN NaN
    ELSE IF x[1] = 0 THEN <<0, -x[2]>>
    ELSE <<-x[1], x[2]>>

Min(i, j) == IF i < j THEN i ELSE j

\* x + y for operands written with the common exponent e
AddAligned(x, y, e) ==
    RoundTo(Sign(x[1] * Pow2(x[2] - e) + y[1] * Pow2(y[2] - e)),
            Abs(x[1] * Pow2(x[2] - e) + y[1] * Pow2(y[2] - e)), e, FALSE)

\* x + y for non-zero operands whose leading bits are gap positions apart: an
\* operand far below the last place of the other does not change it
AddApart(x, y, gap) ==
    IF gap > Precision + 2 THEN x
    ELSE IF -gap > Precision + 2 THEN y
    ELSE AddAligned(x, y, Min(x[2], y[2]))

\* x + y when an operand is no finite number
AddSpecial(x, y) ==
    IF IsNaN(x) \/ IsNaN(y) THEN NaN
    ELSE IF IsFinite(x) THEN y
    ELSE IF IsFinite(y) \/ x = y THEN x
    ELSE NaN

Add(x, y) ==
    IF ~IsFinite(x) \/ ~IsFinite(y) THEN AddSpecial(x, y)
    ELSE IF x = Zero THEN y
    ELSE IF y = Zero THEN x
    ELSE AddApart(x, y, Top(x) - Top(y))

Sub(x, y) == Add(x, Neg(y))

\* x * y when an operand is no finite number
MulSpecial(x, y) ==
    IF IsNaN(x) \/ IsNaN(y) \/ x = Zero \/ y = Zero THEN NaN
    ELSE IF SignOf(x) = SignOf(y) THEN Infinity ELSE NegInfinity

Mul(x, y) ==
    IF ~IsFinite(x) \/ ~IsFinite(y) THEN MulSpecial(x, y)
    ELSE RoundTo(Sign(x[1]) * Sign(y[1]), Abs(x[1]) * Abs(y[1]), x[2] + y[2], FALSE)

\* x / y with the dividend shifted left far enough for a quotient of at least
\* Precision + 2 bits; a remainder makes the quotient sticky
DivShifted(x, y, shift) ==
    RoundTo(Sign(x[1]) * Sign(y[1]),
            (Abs(x[1]) * Pow2(shift)) \div Abs(y[1]),
            x[2] - y[2] - shift,
            (Abs(x[1]) * Pow2(shift)) % Abs(y[1]) # 0)

\* x / y when an operand is no finite number
DivSpecial(x, y) ==
    IF IsNaN(x) \/ IsNaN(y) THEN NaN
    ELSE IF IsFinite(x) THEN Zero
    ELSE IF ~IsFinite(y) THEN NaN
    ELSE IF SignOf(x) * SignOf(y) < 0 THEN NegInfinity ELSE Infinity

Div(x, y) ==
    IF ~IsFinite(x) \/ ~IsFinite(y) THEN DivSpecial(x, y)
    ELSE IF y = Zero
    THEN IF x[1] > 0 THEN Infinity ELSE IF x[1] < 0 THEN NegInfinity ELSE NaN
    ELSE IF x[1] = 0 THEN Zero
    ELSE DivShifted(x, y,
             IF Precision + 2 + BitLen(Abs(y[1])) > BitLen(Abs(x[1]))
             THEN Precision + 2 + BitLen(Abs(y[1])) - BitLen(Abs(x[1]))
             ELSE 0)

Dec(n, d) == Div(Num(n), Num(d))

\* x < y for operands written with the common exponent e
LtAligned(x, y, e) == x[1] * Pow2(x[2] - e) < y[1] * Pow2(y[2] - e)

\* x < y for operands of the same sign with leading bits at tx and ty
LtTop(x, y, tx, ty) ==
    IF tx # ty THEN (tx < ty) = (x[1] > 0)
    ELSE LtAligned(x, y, Min(x[2], y[2]))

\* x < y when an operand is no finite number: false with a NaN
LtSpecial(x, y) ==
    /\ ~IsNaN(x) /\ ~IsNaN(y)
    /\ x # y
    /\ x = NegInfinity \/ y = Infinity

\* x < y, decided by the signs, then by the leading bits, then exactly
Lt(x, y) ==
    IF ~IsFinite(x) \/ ~IsFinite(y) THEN LtSpecial(x, y)
    ELSE IF Sign(x[1]) # Sign(y[1]) THEN x[1] < y[1]
    ELSE IF x[1] = 0 THEN FALSE
    ELSE LtTop(x, y, Top(x), Top(y))
Le(x, y) == Lt(x, y) \/ (x = y /\ ~IsNaN(x))
Gt(x, y) == Lt(y, x)
Ge(x, y) == Le(y, x)
MathMax(x, y) == IF IsNaN(x) \/ IsNaN(y) THEN NaN ELSE IF Lt(x, y) THEN y ELSE x
MathMin(x, y) == IF IsNaN(x) \/ IsNaN(y) THEN NaN ELSE IF Lt(y, x) THEN y ELSE x

\* JavaScript `x || 0` and truthiness of an optional number
Truthy(x) == x \notin {undefined, Zero, NaN}
OrZero(x) == IF Truthy(x) THEN x ELSE Zero
\* a default parameter value: used when the argument is undefined
Default(x, d) == IF x = undefined THEN d ELSE x

-----------------------------------------------------------------------------
\* ROICalculator: the pure functions

\* Horizon and pilot assumptions of calculateROI
horizonMonths == 12
pilotMonths == 3
riskFactor == Dec(7, 10)

\* A faulty variant: the product of the two percentages is not scaled back by 100.
calculateEffectiveEfficiency_Unscaled(aiCoveragePct, efficiencyGainPct) ==
    Mul(aiCoveragePct, efficiencyGainPct)

calculateEffectiveEfficiency(aiCoveragePct, efficiencyGainPct) ==
    Div(Mul(aiCoveragePct, efficiencyGainPct), Hundred)

\* A faulty variant: the efficiency is taken as a fraction, not a percentage.
calculateHoursSavedPerRun_Fraction(hoursPerRun, effectiveEfficiencyPct) ==
    Mul(hoursPerRun, effectiveEfficiencyPct)

calculateHoursSavedPerRun(hoursPerRun, effectiveEfficiencyPct) ==
    Mul(hoursPerRun, Div(effectiveEfficiencyPct, Hundred))

calculateFutureHoursPerRun(hoursPerRun, hoursSavedPerRun) ==
    Sub(hoursPerRun, hoursSavedPerRun)

\* The body of the forEach callback of calculateTotalHours: the three
\* per-task values of one task.
perTask(task) ==
    LET effectiveEfficiency ==
            calculateEffectiveEfficiency(task.aiCoveragePct, task.efficiencyGainPct)
        hoursSaved == calculateHoursSavedPerRun(task.hoursPerRun, effectiveEfficiency)
    IN  [effectiveEfficiency |-> effectiveEfficiency,
         hoursSaved          |-> hoursSaved,
         futureHours         |-> calculateFutureHoursPerRun(task.hoursPerRun, hoursSaved)]

\* A faulty variant: the future total is assigned, not accumulated.
RECURSIVE totalHoursLoop_Assigns(_, _)
totalHoursLoop_Assigns(ts, n) ==
    IF n = 0
    THEN [current |-> Zero, future |-> Zero]
    ELSE LET acc == totalHoursLoop_Assigns(ts, n - 1)
         IN  [current |-> Add(acc.current, ts[n].hoursPerRun),
              future  |-> perTask(ts[n]).futureHours]

\* The loop of calculateTotalHours over the first n tasks, in sequence order.
RECURSIVE totalHoursLoop(_, _)
totalHoursLoop(ts, n) ==
    IF n = 0
    THEN [current |-> Zero, future |-> Zero]
    ELSE LET acc == totalHoursLoop(ts, n - 1)
         IN  [current |-> Add(acc.current, ts[n].hoursPerRun),
              future  |-> Add(acc.future, perTask(ts[n]).futureHours)]

calculateTotalHours(ts) == totalHoursLoop(ts, Len(ts))

calculateLaborCosts(totalHoursCurrent, totalHoursFuture, hourlyCost) ==
    LET costCurrent == Mul(totalHoursCurrent, hourlyCost)
        costFuture  == Mul(totalHoursFuture, hourlyCost)
    IN  [current |-> costCurrent, future |-> costFuture,
         savings |-> Sub(costCurrent, costFuture)]

\* A faulty variant: an account price is multiplied by the team size too.
toolCost_AccountPerSeat(tool, size) ==
    IF tool.billingModel = "per_account"
    THEN Mul(OrZero(tool.accountCostPerMonth), size)
    ELSE Mul(OrZero(tool.licensePerUser), size)

\* The reducer of calculateTechCosts: one tool's monthly cost.
toolCost(tool, size) ==
    IF tool.billingModel = "per_account"
    THEN OrZero(tool.accountCostPerMonth)
    ELSE Mul(OrZero(tool.licensePerUser), size)

RECURSIVE recurringLoop(_, _, _)
recurringLoop(tools, size, n) ==
    IF n = 0 THEN Zero
    ELSE Add(recurringLoop(tools, size, n - 1), toolCost(tools[n], size))

calculateTechCosts(tools, size, trainingCost) ==
    [recurringPerMonth |-> recurringLoop(tools, size, Len(tools)),
     oneTime           |-> Default(trainingCost, Num(5000))]

\* revenueModel?.field : undefined when the model or the field is missing
revenueField(model, field) ==
    IF model = <<>> THEN undefined ELSE model[1][field]

\* A faulty variant: only a missing field, not a zero one, gives undefined.
calculateRevenueImpact_NullCheck(model, runs) ==
    IF \/ revenueField(model, "revenuePerAsset") = undefined
       \/ revenueField(model, "expectedIncrementalConversionLiftPct") = undefined
    THEN undefined
    ELSE Mul(Mul(revenueField(model, "revenuePerAsset"),
                 Div(revenueField(model, "expectedIncrementalConversionLiftPct"),
                     Hundred)),
             Default(runs, Num(10)))

calculateRevenueImpact(model, runs) ==
    LET revenuePerAsset == revenueField(model, "revenuePerAsset")
        liftPct == revenueField(model, "expectedIncrementalConversionLiftPct")
    IN  IF ~Truthy(revenuePerAsset) \/ ~Truthy(liftPct)
        THEN undefined
        ELSE Mul(Mul(revenuePerAsset, Div(liftPct, Hundred)),
                 Default(runs, Num(10)))

\* A faulty variant: the efficiency gain is divided by the multiplier.
adjustTask_Divides(task, multiplier) ==
    [task EXCEPT !.efficiencyGainPct =
        MathMin(Hundred, MathMax(Zero, Div(task.efficiencyGainPct, multiplier)))]

\* A faulty variant: the hours of the task are scaled as well.
adjustTask_ScalesHours(task, multiplier) ==
    [task EXCEPT !.efficiencyGainPct =
                     MathMin(Hundred, MathMax(Zero, Mul(task.efficiencyGainPct, multiplier))),
                 !.hoursPerRun = Mul(task.hoursPerRun, multiplier)]

\* Scenario adjustment of one task: efficiency gain times the multiplier,
\* clamped to 0..100; the other fields are copied.
adjustTask(task, multiplier) ==
    [task EXCEPT !.efficiencyGainPct =
        MathMin(Hundred, MathMax(Zero, Mul(task.efficiencyGainPct, multiplier)))]

adjustedTasks(ts, multiplier) ==
    [i \in 1..Len(ts) |-> adjustTask(ts[i], multiplier)]

\* calculateROI, step by step

\* A faulty variant: the raw labor savings are reported without the floor at 0.
monthlySavings_NoFloor(rawLaborSavings) == rawLaborSavings

monthlySavings(rawLaborSavings) == MathMax(rawLaborSavings, Zero)

revenueLiftPerMonth(model, safeRunsPerMonth) ==
    OrZero(calculateRevenueImpact(model, safeRunsPerMonth))

\* A faulty variant: no payback is reported as 0 months.
paybackMonths_ZeroFallback(calculatedTrainingCost, monthlyNetBenefit) ==
    IF Gt(monthlyNetBenefit, Zero)
    THEN Div(calculatedTrainingCost, monthlyNetBenefit)
    ELSE Zero

\* A faulty variant: the division is not guarded.
paybackMonths_Unguarded(calculatedTrainingCost, monthlyNetBenefit) ==
    Div(calculatedTrainingCost, monthlyNetBenefit)

paybackMonths(calculatedTrainingCost, monthlyNetBenefit) ==
    IF Gt(monthlyNetBenefit, Zero)
    THEN Div(calculatedTrainingCost, monthlyNetBenefit)
    ELSE Infinity

\* A faulty variant: the division is not guarded.
roiPercentage_Unguarded(totalNetBenefitOverHorizon, totalInvestmentOverHorizon) ==
    Mul(Div(totalNetBenefitOverHorizon, totalInvestmentOverHorizon), Hundred)

roiPercentage(totalNetBenefitOverHorizon, totalInvestmentOverHorizon) ==
    IF Gt(totalInvestmentOverHorizon, Zero)
    THEN Mul(Div(totalNetBenefitOverHorizon, totalInvestmentOverHorizon), Hundred)
    ELSE Zero

\* A faulty variant: the division is not guarded.
throughputMultiplier_Unguarded(totalHoursCurrent, totalHoursFuture) ==
    Div(totalHoursCurrent, totalHoursFuture)

throughputMultiplier(totalHoursCurrent, totalHoursFuture) ==
    IF Gt(totalHoursFuture, Zero)
    THEN Div(totalHoursCurrent, totalHoursFuture)
    ELSE One

\* A faulty variant: the difference is taken the other way round.
additionalMonthlyCost_Reversed(aiRecurringCostPerMonth, savings) ==
    MathMax(Sub(savings, aiRecurringCostPerMonth), Zero)

additionalMonthlyCost(aiRecurringCostPerMonth, savings) ==
    MathMax(Sub(aiRecurringCostPerMonth, savings), Zero)

\* A faulty variant: savings equal to the recurring cost count as a cost saving.
classify_SavingsNotStrict(additionalCost, monthlyUplift, savings, aiRecurringCostPerMonth) ==
    IF Gt(additionalCost, Zero) /\ Gt(monthlyUplift, additionalCost)
    THEN [classification |-> "AI Performance Investment", showNetBenefitTooltip |-> TRUE]
    ELSE IF Ge(savings, aiRecurringCostPerMonth)
         THEN [classification |-> "Cost Savings Initiative", showNetBenefitTooltip |-> FALSE]
         ELSE [classification |-> "Neutral", showNetBenefitTooltip |-> FALSE]

classify(additionalCost, monthlyUplift, savings, aiRecurringCostPerMonth) ==
    IF Gt(additionalCost, Zero) /\ Gt(monthlyUplift, additionalCost)
    THEN [classification |-> "AI Performance Investment", showNetBenefitTooltip |-> TRUE]
    ELSE IF Gt(savings, aiRecurringCostPerMonth)
         THEN [classification |-> "Cost Savings Initiative", showNetBenefitTooltip |-> FALSE]
         ELSE [classification |-> "Neutral", showNetBenefitTooltip |-> FALSE]

\* The body of calculateROI is a sequence of const declarations.  Each
\* const_ operator takes the scope s, a record of the names declared so far
\* (the parameters first), and returns it with one more name declared.
Declare(s, name, value) == s @@ (name :> value)

\* A faulty variant: the multiplier of the previous call is kept and used.
parameters_StickyMultiplier(ts, tools, size, hourlyCost, model, trainingCost, runs, multiplier) ==
    [tasks               |-> ts,
     recommendedTools    |-> tools,
     teamSize            |-> size,
     averageHourlyCost   |-> hourlyCost,
     revenueModel        |-> model,
     trainingCostOneTime |-> Default(trainingCost, Num(5000)),
     runsPerMonth        |-> Default(runs, Num(10)),
     scenarioMultiplier  |-> Default(scenarioMultiplier, Default(multiplier, One))]

parameters(ts, tools, size, hourlyCost, model, trainingCost, runs, multiplier) ==
    [tasks               |-> ts,
     recommendedTools    |-> tools,
     teamSize            |-> size,
     averageHourlyCost   |-> hourlyCost,
     revenueModel        |-> model,
     trainingCostOneTime |-> Default(trainingCost, Num(5000)),
     runsPerMonth        |-> Default(runs, Num(10)),
     scenarioMultiplier  |-> Default(multiplier, One)]

\* A faulty variant: the tasks are adjusted in place.
const_adjustedTasks_InPlace(s) ==
    Declare([s EXCEPT !.tasks = adjustedTasks(s.tasks, s.scenarioMultiplier)],
            "adjustedTasks", adjustedTasks(s.tasks, s.scenarioMultiplier))

const_adjustedTasks(s) ==
    Declare(s, "adjustedTasks", adjustedTasks(s.tasks, s.scenarioMultiplier))

\* { current: totalHoursCurrentPerRun, future: totalHoursFuturePerRun }
const_totalHoursPerRun(s) ==
    Declare(s, "totalHoursPerRun", calculateTotalHours(s.adjustedTasks))

const_safeRunsPerMonth(s) ==
    Declare(s, "safeRunsPerMonth", MathMax(s.runsPerMonth, Zero))

const_totalHoursCurrent(s) ==
    Declare(s, "totalHoursCurrent",
            Mul(s.totalHoursPerRun.current, s.safeRunsPerMonth))

const_totalHoursFuture(s) ==
    Declare(s, "totalHoursFuture",
            Mul(s.totalHoursPerRun.future, s.safeRunsPerMonth))

\* { current: costCurrent, future: costFuture, savings: rawSavings }
const_laborCosts(s) ==
    Declare(s, "laborCosts",
            calculateLaborCosts(s.totalHoursCurrent, s.totalHoursFuture,
                                s.averageHourlyCost))

const_monthlySavings(s) ==
    Declare(s, "monthlySavings", monthlySavings(s.laborCosts.savings))

\* { recurringPerMonth: aiRecurringCostPerMonth, oneTime: calculatedTrainingCost }
const_techCosts(s) ==
    Declare(s, "techCosts",
            calculateTechCosts(s.recommendedTools, s.teamSize,
                               s.trainingCostOneTime))

const_revenueLiftPerMonth(s) ==
    Declare(s, "revenueLiftPerMonth",
            revenueLiftPerMonth(s.revenueModel, s.safeRunsPerMonth))

const_grossBenefitPerMonth(s) ==
    Declare(s, "grossBenefitPerMonth",
            Add(s.monthlySavings, s.revenueLiftPerMonth))

const_monthlyNetBenefit(s) ==
    Declare(s, "monthlyNetBenefit",
            Sub(s.grossBenefitPerMonth, s.techCosts.recurringPerMonth))

const_paybackMonths(s) ==
    Declare(s, "paybackMonths",
            paybackMonths(s.techCosts.oneTime, s.monthlyNetBenefit))

const_totalNetBenefitOverHorizon(s) ==
    Declare(s, "totalNetBenefitOverHorizon",
            Sub(Mul(s.monthlyNetBenefit, Num(horizonMonths)), s.techCosts.oneTime))

const_totalInvestmentOverHorizon(s) ==
    Declare(s, "totalInvestmentOverHorizon",
            Add(s.techCosts.oneTime,
                Mul(s.techCosts.recurringPerMonth, Num(horizonMonths))))

const_roiPercentage(s) ==
    Declare(s, "roiPercentage",
            roiPercentage(s.totalNetBenefitOverHorizon,
                          s.totalInvestmentOverHorizon))

const_pilotGrossBenefit(s) ==
    Declare(s, "pilotGrossBenefit", Mul(s.grossBenefitPerMonth, Num(pilotMonths)))

const_pilotAIRecurringCost(s) ==
    Declare(s, "pilotAIRecurringCost",
            Mul(s.techCosts.recurringPerMonth, Num(pilotMonths)))

const_pilotTotalCost(s) ==
    Declare(s, "pilotTotalCost", Add(s.techCosts.oneTime, s.pilotAIRecurringCost))

\* A faulty variant: the pilot costs are not subtracted.
const_pilotNetValue_Gross(s) ==
    Declare(s, "pilotNetValue", s.pilotGrossBenefit)

const_pilotNetValue(s) ==
    Declare(s, "pilotNetValue", Sub(s.pilotGrossBenefit, s.pilotTotalCost))

const_riskAdjustedSavings(s) ==
    Declare(s, "riskAdjustedSavings", Mul(s.pilotNetValue, riskFactor))

const_revenueLiftPerRun(s) ==
    Declare(s, "revenueLiftPerRun", s.revenueLiftPerMonth)

const_throughputMultiplier(s) ==
    Declare(s, "throughputMultiplier",
            throughputMultiplier(s.totalHoursCurrent, s.totalHoursFuture))

const_additionalMonthlyCost(s) ==
    Declare(s, "additionalMonthlyCost",
            additionalMonthlyCost(s.techCosts.recurringPerMonth, s.monthlySavings))

const_monthlyUplift(s) ==
    Declare(s, "monthlyUplift", s.revenueLiftPerMonth)

\* let classification, showNetBenefitTooltip and the if statement setting them
const_classification(s) ==
    Declare(s, "label",
            classify(s.additionalMonthlyCost, s.monthlyUplift, s.monthlySavings,
                     s.techCosts.recurringPerMonth))

\* The return statement of calculateROI
returnValue(s) ==
    [totalHoursCurrent       |-> s.totalHoursCurrent,
     totalHoursFuture        |-> s.totalHoursFuture,
     costCurrent             |-> s.laborCosts.current,
     costFuture              |-> s.laborCosts.future,
     monthlySavings          |-> s.monthlySavings,
     aiRecurringCostPerMonth |-> s.techCosts.recurringPerMonth,
     trainingCostOneTime     |-> s.techCosts.oneTime,
     revenueLiftPerRun       |-> s.revenueLiftPerRun,
     monthlyNetBenefit       |-> s.monthlyNetBenefit,
     roiPercentage           |-> s.roiPercentage,
     paybackMonths           |-> s.paybackMonths,
     pilot3MonthSavings      |-> s.pilotNetValue,
     riskAdjustedSavings     |-> s.riskAdjustedSavings,
     throughputMultiplier    |-> s.throughputMultiplier,
     additionalMonthlyCost   |-> s.additionalMonthlyCost,
     monthlyUplift           |-> s.monthlyUplift,
     classification          |-> s.label.classification,
     showNetBenefitTooltip   |-> s.label.showNetBenefitTooltip]

\* The scope at the return statement of calculateROI: the parameters, as the
\* body has left them, and every const of the body
calculateROI_body(ts, tools, size, hourlyCost, model, trainingCost, runs, multiplier) ==
    const_classification(
    const_monthlyUplift(
    const_additionalMonthlyCost(
    const_throughputMultiplier(
    const_revenueLiftPerRun(
    const_riskAdjustedSavings(
    const_pilotNetValue(
    const_pilotTotalCost(
    const_pilotAIRecurringCost(
    const_pilotGrossBenefit(
    const_roiPercentage(
    const_totalInvestmentOverHorizon(
    const_totalNetBenefitOverHorizon(
    const_paybackMonths(
    const_monthlyNetBenefit(
    const_grossBenefitPerMonth(
    const_revenueLiftPerMonth(
    const_techCosts(
    const_monthlySavings(
    const_laborCosts(
    const_totalHoursFuture(
    const_totalHoursCurrent(
    const_safeRunsPerMonth(
    const_totalHoursPerRun(
    const_adjustedTasks(
    parameters(ts, tools, size, hourlyCost, model, trainingCost, runs, multiplier)
    )))))))))))))))))))))))))

calculateROI(ts, tools, size, hourlyCost, model, trainingCost, runs, multiplier) ==
    returnValue(calculateROI_body(ts, tools, size, hourlyCost, model, trainingCost,
                                  runs, multiplier))

\* A faulty variant: the Conservative calculation is made with the Base multiplier.
generateScenarios_ConservativeAsBase(ts, tools, size, hourlyCost, model, trainingCost, runs) ==
    LET training == Default(trainingCost, Num(5000))
        runsArg == Default(runs, Num(10))
    IN  << [name |-> "Conservative",
            multiplier |-> Dec(7, 10),
            calculation |-> calculateROI(ts, tools, size, hourlyCost, model,
                                         training, runsArg, One)],
           [name |-> "Base",
            multiplier |-> One,
            calculation |-> calculateROI(ts, tools, size, hourlyCost, model,
                                         training, runsArg, One)],
           [name |-> "Aggressive",
            multiplier |-> Dec(13, 10),
            calculation |-> calculateROI(ts, tools, size, hourlyCost, model,
                                         training, runsArg, Dec(13, 10))] >>

generateScenarios(ts, tools, size, hourlyCost, model, trainingCost, runs) ==
    LET training == Default(trainingCost, Num(5000))
        runsArg == Default(runs, Num(10))
    IN  << [name |-> "Conservative",
            multiplier |-> Dec(7, 10),
            calculation |-> calculateROI(ts, tools, size, hourlyCost, model,
                                         training, runsArg, Dec(7, 10))],
           [name |-> "Base",
            multiplier |-> One,
            calculation |-> calculateROI(ts, tools, size, hourlyCost, model,
                                         training, runsArg, One)],
           [name |-> "Aggressive",
            multiplier |-> Dec(13, 10),
            calculation |-> calculateROI(ts, tools, size, hourlyCost, model,
                                         training, runsArg, Dec(13, 10))] >>

-----------------------------------------------------------------------------
\* Inputs of the model

MaxTasks == 2     \* longest task list given to calculateROI

Task(n, h, c, e) ==
    [name |-> n, hoursPerRun |-> h, aiCoveragePct |-> c, efficiencyGainPct |-> e]

\* Tasks inside the documented ranges (hours 0.5..40, percentages 0..100)
InRangeTasks ==
    { Task("draft", Num(10), Num(50), Num(40)),
      Task("edit", Num(40), Hundred, Num(80)) }

\* A task whose coverage is above 100
OutOfRangeTasks ==
    { Task("over", Num(10), Num(150), Hundred) }

TaskPool == InRangeTasks \cup OutOfRangeTasks

Tool(n, b, l, a) ==
    [name |-> n, billingModel |-> b, licensePerUser |-> l, accountCostPerMonth |-> a]

Suite == Tool("suite", "per_account", undefined, Num(2000))
Seat == Tool("seat", "per_user", Num(20), undefined)

ToolLists == { <<>>, <<Suite>>, <<Seat>>, <<Suite, Seat>> }

RevenueModel(r, l) ==
    [revenuePerAsset |-> r, expectedIncrementalConversionLiftPct |-> l]

RevenueModels ==
    { <<>>,
      <<RevenueModel(Num(1000), Num(10))>>,
      <<RevenueModel(Num(1000), Zero)>> }

TeamSizes == { Num(1), Num(5) }
HourlyCosts == { Num(-10), Num(75) }
TrainingCosts == { Zero, Num(5000) }
RunsPerMonth == { Num(-1), Zero, Num(10) }
Multipliers == { Dec(7, 10), One, Dec(13, 10) }

SeqsUpTo(S, n) == UNION { [1..k -> S] : k \in 0..n }

-----------------------------------------------------------------------------
\* The engine as called with one set of arguments

Init ==
    /\ ServerStarted /\ PageLoaded
    /\ tasks \in SeqsUpTo(TaskPool, MaxTasks)
    /\ recommendedTools \in ToolLists
    /\ teamSize \in TeamSizes
    /\ averageHourlyCost \in HourlyCosts
    /\ revenueModel \in RevenueModels
    /\ trainingCostOneTime \in TrainingCosts
    /\ runsPerMonth \in RunsPerMonth
    /\ scenarioMultiplier = undefined
    /\ pc = "ready"
    /\ ret = <<>>

CallGenerateScenarios ==
    /\ UNCHANGED web
    /\ pc = "ready"
    /\ ret' = generateScenarios(tasks, recommendedTools, teamSize, averageHourlyCost,
                                revenueModel, trainingCostOneTime, runsPerMonth)
    /\ pc' = "generateScenarios"
    /\ UNCHANGED args

CallCalculateROI ==
    /\ UNCHANGED web
    /\ pc = "ready"
    /\ \E m \in Multipliers :
        /\ scenarioMultiplier' = m
        /\ ret' = calculateROI(tasks, recommendedTools, teamSize, averageHourlyCost,
                               revenueModel, trainingCostOneTime, runsPerMonth, m)
    /\ pc' = "calculateROI"
    /\ UNCHANGED <<tasks, recommendedTools, teamSize, averageHourlyCost,
                   revenueModel, trainingCostOneTime, runsPerMonth>>

\* The caller takes the result; the engine keeps nothing.
Return ==
    /\ UNCHANGED web
    /\ pc # "ready"
    /\ pc' = "ready"
    /\ ret' = <<>>
    /\ scenarioMultiplier' = undefined
    /\ UNCHANGED <<tasks, recommendedTools, teamSize, averageHourlyCost,
                   revenueModel, trainingCostOneTime, runsPerMonth>>

Next == CallGenerateScenarios \/ CallCalculateROI \/ Return

Spec == Init /\ [][Next]_vars

-----------------------------------------------------------------------------
\* Properties of generateScenarios and calculateROI (specification Spec)

AbsNum(x) == <<Abs(x[1]), x[2]>>

\* The unit in the last place of a non-zero number, and the next number above
\* a positive one
Ulp(x) == <<1, Top(x) - Precision>>
NextUp(x) == Add(x, Ulp(x))

\* x and y differ by at most k units in the last place of the larger
WithinUlps(x, y, k) ==
    \/ x = y
    \/ Le(AbsNum(Sub(x, y)),
          Mul(Num(k), Ulp(MathMax(AbsNum(x), AbsNum(y)))))

\* The sum of a sequence of numbers, added from left to right
RECURSIVE SumSeq(_)
SumSeq(q) ==
    IF q = <<>> THEN Zero
    ELSE Add(SumSeq(SubSeq(q, 1, Len(q) - 1)), q[Len(q)])

InRange(x, lo, hi) == Le(lo, x) /\ Le(x, hi)

TaskInDomain(t) ==
    /\ InRange(t.hoursPerRun, Dec(1, 2), Num(40))
    /\ InRange(t.aiCoveragePct, Zero, Hundred)
    /\ InRange(t.efficiencyGainPct, Zero, Hundred)

ToolInDomain(t) ==
    /\ t.licensePerUser = undefined \/ Ge(t.licensePerUser, Zero)
    /\ t.accountCostPerMonth = undefined \/ Ge(t.accountCostPerMonth, Zero)

InDomain ==
    /\ \A i \in 1..Len(tasks) : TaskInDomain(tasks[i])
    /\ \A i \in 1..Len(recommendedTools) : ToolInDomain(recommendedTools[i])
    /\ Ge(averageHourlyCost, Zero)
    /\ Ge(runsPerMonth, Zero)

Returned(f) == pc = f

\* C1: for in-domain inputs the scenarios returned by generateScenarios are
\* ordered by net benefit: Aggressive >= Base >= Conservative.
C1_ScenarioMonotonicity ==
    (Returned("generateScenarios") /\ InDomain) =>
        /\ Ge(ret[3].calculation.monthlyNetBenefit, ret[2].calculation.monthlyNetBenefit)
        /\ Ge(ret[2].calculation.monthlyNetBenefit, ret[1].calculation.monthlyNetBenefit)

\* generateScenarios has returned for in-domain inputs with three different
\* net benefits, in strictly increasing order.
C1_Witness ==
    /\ Returned("generateScenarios") /\ InDomain
    /\ Gt(ret[3].calculation.monthlyNetBenefit, ret[2].calculation.monthlyNetBenefit)
    /\ Gt(ret[2].calculation.monthlyNetBenefit, ret[1].calculation.monthlyNetBenefit)

\* C2: generateScenarios returns exactly three scenarios, Conservative, Base,
\* Aggressive in that order, with multipliers 0.7, 1.0, 1.3, and each
\* calculation is calculateROI of the same arguments with that multiplier.
C2_ThreeScenarios ==
    Returned("generateScenarios") =>
        /\ Len(ret) = 3
        /\ <<ret[1].name, ret[2].name, ret[3].name>>
               = <<"Conservative", "Base", "Aggressive">>
        /\ <<ret[1].multiplier, ret[2].multiplier, ret[3].multiplier>>
               = <<Dec(7, 10), One, Dec(13, 10)>>
        /\ \A i \in 1..3 :
               ret[i].calculation =
                   calculateROI(tasks, recommendedTools, teamSize, averageHourlyCost,
                                revenueModel, trainingCostOneTime, runsPerMonth,
                                ret[i].multiplier)

\* generateScenarios has returned three pairwise different calculations.
C2_Witness ==
    /\ Returned("generateScenarios")
    /\ ret[1].calculation # ret[2].calculation
    /\ ret[2].calculation # ret[3].calculation
    /\ ret[1].calculation # ret[3].calculation

\* C3: monthlySavings of every calculateROI result is >= 0, and is exactly 0
\* when the raw difference costCurrent - costFuture is negative.
C3_SavingsNonNegative ==
    Returned("calculateROI") =>
        /\ Ge(ret.monthlySavings, Zero)
        /\ Lt(Sub(ret.costCurrent, ret.costFuture), Zero) => ret.monthlySavings = Zero

\* calculateROI has returned for inputs whose raw labor cost difference is
\* negative (a negative hourly cost), with a task whose coverage is above 100.
C3_Witness ==
    /\ Returned("calculateROI")
    /\ Lt(Sub(ret.costCurrent, ret.costFuture), Zero)
    /\ Lt(averageHourlyCost, Zero)
    /\ \E i \in 1..Len(tasks) : Gt(tasks[i].aiCoveragePct, Hundred)
    /\ ret.monthlySavings = Zero

\* C4: paybackMonths is +Infinity exactly when monthlyNetBenefit <= 0;
\* otherwise it is trainingCostOneTime / monthlyNetBenefit, and it is not
\* negative when trainingCostOneTime >= 0.
C4_Payback ==
    Returned("calculateROI") =>
        /\ ret.paybackMonths = Infinity <=> Le(ret.monthlyNetBenefit, Zero)
        /\ Gt(ret.monthlyNetBenefit, Zero) =>
              /\ IsFinite(ret.paybackMonths)
              /\ ret.paybackMonths = Div(ret.trainingCostOneTime, ret.monthlyNetBenefit)
              /\ Ge(ret.trainingCostOneTime, Zero) => Ge(ret.paybackMonths, Zero)

\* calculateROI has returned a finite, positive payback period.
C4_Witness ==
    /\ Returned("calculateROI")
    /\ Gt(ret.monthlyNetBenefit, Zero)
    /\ IsFinite(ret.paybackMonths) /\ Gt(ret.paybackMonths, Zero)

\* C5: the classification is the first match of: "AI Performance Investment"
\* when additionalMonthlyCost = max(aiRecurringCostPerMonth - monthlySavings, 0)
\* is > 0 and the monthly uplift exceeds it, "Cost Savings Initiative" when
\* monthlySavings > aiRecurringCostPerMonth, "Neutral"; showNetBenefitTooltip
\* is true exactly for "AI Performance Investment".
C5_Classification ==
    Returned("calculateROI") =>
        LET extra == MathMax(Sub(ret.aiRecurringCostPerMonth, ret.monthlySavings), Zero)
            expected ==
                IF Gt(extra, Zero) /\ Gt(ret.monthlyUplift, extra)
                THEN "AI Performance Investment"
                ELSE IF Gt(ret.monthlySavings, ret.aiRecurringCostPerMonth)
                     THEN "Cost Savings Initiative"
                     ELSE "Neutral"
        IN  /\ ret.additionalMonthlyCost = extra
            /\ ret.classification = expected
            /\ ret.showNetBenefitTooltip
                   <=> (ret.classification = "AI Performance Investment")

\* calculateROI has returned "AI Performance Investment" with the tooltip flag.
C5_Witness ==
    /\ Returned("calculateROI")
    /\ ret.classification = "AI Performance Investment"
    /\ ret.showNetBenefitTooltip

\* C6: roiPercentage is (monthlyNetBenefit*12 - trainingCostOneTime) /
\* (trainingCostOneTime + aiRecurringCostPerMonth*12) * 100 when that
\* investment total is > 0, and 0 when the investment total is <= 0.
C6_RoiPercentage ==
    Returned("calculateROI") =>
        LET investment == Add(ret.trainingCostOneTime,
                              Mul(ret.aiRecurringCostPerMonth, Num(12)))
            net == Sub(Mul(ret.monthlyNetBenefit, Num(12)), ret.trainingCostOneTime)
        IN  IF Gt(investment, Zero)
            THEN ret.roiPercentage = Mul(Div(net, investment), Hundred)
            ELSE ret.roiPercentage = Zero

\* calculateROI has returned with no paid tools and no training cost, a
\* positive net benefit, and roiPercentage 0.
C6_Witness ==
    /\ Returned("calculateROI")
    /\ ret.aiRecurringCostPerMonth = Zero /\ ret.trainingCostOneTime = Zero
    /\ Gt(ret.monthlyNetBenefit, Zero)
    /\ ret.roiPercentage = Zero

FullyAutomated(t, multiplier) ==
    /\ t.aiCoveragePct = Hundred
    /\ Ge(Mul(t.efficiencyGainPct, multiplier), Hundred)

\* C7: throughputMultiplier is totalHoursCurrent / totalHoursFuture when
\* totalHoursFuture > 0 and 1 otherwise; it is 1 for an empty task list, for
\* runsPerMonth <= 0 and when every task has full coverage and full clamped
\* efficiency gain.
C7_Throughput ==
    Returned("calculateROI") =>
        /\ IF Gt(ret.totalHoursFuture, Zero)
           THEN ret.throughputMultiplier = Div(ret.totalHoursCurrent, ret.totalHoursFuture)
           ELSE ret.throughputMultiplier = One
        /\ tasks = <<>> => ret.throughputMultiplier = One
        /\ Le(runsPerMonth, Zero) => ret.throughputMultiplier = One
        /\ (\A i \in 1..Len(tasks) : FullyAutomated(tasks[i], scenarioMultiplier))
               => ret.throughputMultiplier = One

\* calculateROI has returned for a non-empty list of fully automated tasks,
\* one of them by the clamp at 100, run at least once a month.
C7_Witness ==
    /\ Returned("calculateROI")
    /\ tasks # <<>> /\ Gt(runsPerMonth, Zero)
    /\ \A i \in 1..Len(tasks) : FullyAutomated(tasks[i], scenarioMultiplier)
    /\ \E i \in 1..Len(tasks) : Gt(Mul(tasks[i].efficiencyGainPct, scenarioMultiplier), Hundred)
    /\ Gt(ret.totalHoursCurrent, Zero)
    /\ ret.throughputMultiplier = One

-----------------------------------------------------------------------------
\* The per-task transformer on its own (specification SpecTask)

TaskHours == { Zero, Dec(1, 2), Num(3), Num(40) }
\* Whole percentages in and out of 0..100, and the gain of 91 as the
\* Conservative scenario scales it (91 * 0.7)
Percentages ==
    { Num(-10), Zero, Num(1), Num(33), Num(50), Hundred, Num(150),
      Mul(Num(91), Dec(7, 10)) }

TaskGrid == { Task("task", h, c, e) : h \in TaskHours, c \in Percentages, e \in Percentages }

\* The arguments the functions under test do not read
NoTasks == tasks = <<>>
NoTools == recommendedTools = <<>> /\ teamSize = One
NoTeam ==
    /\ averageHourlyCost = Zero
    /\ revenueModel = <<>>
    /\ runsPerMonth = undefined
    /\ scenarioMultiplier = undefined

InitTask ==
    /\ ServerStarted /\ PageLoaded
    /\ tasks \in { <<t>> : t \in TaskGrid }
    /\ NoTools /\ NoTeam
    /\ trainingCostOneTime = undefined
    /\ pc = "ready"
    /\ ret = <<>>

\* calculateTotalHours' callback applied to one task of the list
CallPerTask ==
    /\ UNCHANGED web
    /\ pc = "ready"
    /\ \E i \in 1..Len(tasks) :
           ret' = [task |-> tasks[i], result |-> perTask(tasks[i])]
    /\ pc' = "perTask"
    /\ UNCHANGED args

NextTask == CallPerTask \/ Return

SpecTask == InitTask /\ [][NextTask]_vars

PerTaskPrecondition(t) ==
    /\ Gt(t.hoursPerRun, Zero)
    /\ InRange(t.aiCoveragePct, Zero, Hundred)
    /\ InRange(t.efficiencyGainPct, Zero, Hundred)

\* C8 as stated: for a task with hoursPerRun > 0 and both percentages in
\* [0, 100], effectiveEfficiency <= efficiencyGainPct, 0 <= hoursSavedPerRun
\* <= hoursPerRun and 0 <= futureHoursPerRun <= hoursPerRun.
C8_Original ==
    (Returned("perTask") /\ PerTaskPrecondition(ret.task)) =>
        /\ Le(ret.result.effectiveEfficiency, ret.task.efficiencyGainPct)
        /\ InRange(ret.result.hoursSaved, Zero, ret.task.hoursPerRun)
        /\ InRange(ret.result.futureHours, Zero, ret.task.hoursPerRun)

\* C8 as amended: effectiveEfficiency is at most 100 and at most one unit in
\* the last place above efficiencyGainPct; the bounds on the hours saved and
\* the future hours are as stated.
C8_PerTaskBounds ==
    (Returned("perTask") /\ PerTaskPrecondition(ret.task)) =>
        /\ \/ Le(ret.result.effectiveEfficiency, ret.task.efficiencyGainPct)
           \/ ret.result.effectiveEfficiency = NextUp(ret.task.efficiencyGainPct)
        /\ Le(ret.result.effectiveEfficiency, Hundred)
        /\ InRange(ret.result.hoursSaved, Zero, ret.task.hoursPerRun)
        /\ InRange(ret.result.futureHours, Zero, ret.task.hoursPerRun)

\* The transformer has returned for an in-range, fully covered task whose
\* effective efficiency was rounded above its efficiency gain.
C8_Witness ==
    /\ Returned("perTask") /\ PerTaskPrecondition(ret.task)
    /\ ret.task.aiCoveragePct = Hundred
    /\ Gt(ret.result.effectiveEfficiency, ret.task.efficiencyGainPct)
    /\ Gt(ret.result.hoursSaved, Zero)
    /\ Gt(ret.result.futureHours, Zero)

-----------------------------------------------------------------------------
\* calculateTotalHours on its own (specification SpecHours)

MaxPermuted == 3     \* longest task list that is permuted

HoursPool ==
    TaskPool \cup { Task("schedule", Dec(1, 2), Hundred, Hundred),
                    Task("review", Num(3), Num(25), Num(30)),
                    Task("plan", Num(12), Num(60), Num(35)) }

InitHours ==
    /\ ServerStarted /\ PageLoaded
    /\ tasks \in SeqsUpTo(HoursPool, MaxPermuted)
    /\ NoTools /\ NoTeam
    /\ trainingCostOneTime = undefined
    /\ pc = "ready"
    /\ ret = <<>>

CallCalculateTotalHours ==
    /\ UNCHANGED web
    /\ pc = "ready"
    /\ ret' = calculateTotalHours(tasks)
    /\ pc' = "calculateTotalHours"
    /\ UNCHANGED args

NextHours == CallCalculateTotalHours \/ Return

SpecHours == InitHours /\ [][NextHours]_vars

Permuted(q, p) == [i \in 1..Len(q) |-> q[p[i]]]

HoursPerRun(q) == [i \in 1..Len(q) |-> q[i].hoursPerRun]
FutureHoursPerRun(q) == [i \in 1..Len(q) |-> perTask(q[i]).futureHours]

\* C9 as stated: calculateTotalHours returns the sum of hoursPerRun and the
\* sum of the per-task future hours; every permutation of the tasks gives
\* the same pair; the empty sequence gives (0, 0).
C9_Original ==
    Returned("calculateTotalHours") =>
        /\ ret.current = SumSeq(HoursPerRun(tasks))
        /\ ret.future = SumSeq(FutureHoursPerRun(tasks))
        /\ \A p \in Permutations(1..Len(tasks)) :
               calculateTotalHours(Permuted(tasks, p)) = ret
        /\ tasks = <<>> => ret = [current |-> Zero, future |-> Zero]

\* C9 as amended: the totals are the sums taken in sequence order; a
\* permutation gives the same pair for at most two tasks, and for more
\* in-range tasks totals within Len(tasks) - 1 units in the last place; the
\* empty sequence gives (0, 0).
C9_TotalHours ==
    Returned("calculateTotalHours") =>
        /\ ret.current = SumSeq(HoursPerRun(tasks))
        /\ ret.future = SumSeq(FutureHoursPerRun(tasks))
        /\ \A p \in Permutations(1..Len(tasks)) :
               LET other == calculateTotalHours(Permuted(tasks, p))
               IN  /\ Len(tasks) <= 2 => other = ret
                   /\ (\A i \in 1..Len(tasks) : TaskInDomain(tasks[i])) =>
                          /\ WithinUlps(other.current, ret.current, Len(tasks) - 1)
                          /\ WithinUlps(other.future, ret.future, Len(tasks) - 1)
        /\ tasks = <<>> => ret = [current |-> Zero, future |-> Zero]

\* calculateTotalHours has returned for three in-range tasks that another
\* order sums to a different future total.
C9_Witness ==
    /\ Returned("calculateTotalHours")
    /\ Len(tasks) = 3
    /\ \A i \in 1..Len(tasks) : TaskInDomain(tasks[i])
    /\ \E p \in Permutations(1..Len(tasks)) :
           calculateTotalHours(Permuted(tasks, p)).future # ret.future

-----------------------------------------------------------------------------
\* calculateTechCosts on its own (specification SpecTech)

MaxTools == 2     \* longest tool list given to calculateTechCosts

TechToolPool ==
    { Suite, Seat,
      Tool("studio", "per_account", Num(30), Num(500)),
      Tool("unpriced account", "per_account", Num(50), undefined),
      Tool("editor", "per_user", Num(15), Num(900)),
      Tool("unpriced seat", "per_user", undefined, Num(300)) }

TechTeamSizes == { Num(1), Num(5), Num(10) }
TechTrainingCosts == { undefined, Zero, Num(1200), Num(5000) }

InitTech ==
    /\ ServerStarted /\ PageLoaded
    /\ NoTasks /\ NoTeam
    /\ recommendedTools \in SeqsUpTo(TechToolPool, MaxTools)
    /\ teamSize \in TechTeamSizes
    /\ trainingCostOneTime \in TechTrainingCosts
    /\ pc = "ready"
    /\ ret = <<>>

CallCalculateTechCosts ==
    /\ UNCHANGED web
    /\ pc = "ready"
    /\ ret' = calculateTechCosts(recommendedTools, teamSize, trainingCostOneTime)
    /\ pc' = "calculateTechCosts"
    /\ UNCHANGED args

NextTech == CallCalculateTechCosts \/ Return

SpecTech == InitTech /\ [][NextTech]_vars

PresentOrZero(x) == IF x = undefined THEN Zero ELSE x

\* What the claim says one tool contributes for a team of the given size
Contribution(tool, size) ==
    IF tool.billingModel = "per_account"
    THEN PresentOrZero(tool.accountCostPerMonth)
    ELSE Mul(PresentOrZero(tool.licensePerUser), size)

\* C10: recurringPerMonth is the sum over the tools of accountCostPerMonth
\* for per_account tools and licensePerUser * teamSize for the others, a
\* missing relevant field counting as 0 and the other field being ignored; a
\* list of per_account tools costs the same for every team size; oneTime is
\* the supplied trainingCostOneTime, 5000 when it is omitted.
C10_TechCosts ==
    Returned("calculateTechCosts") =>
        /\ ret.recurringPerMonth =
               SumSeq([i \in 1..Len(recommendedTools) |->
                           Contribution(recommendedTools[i], teamSize)])
        /\ (\A i \in 1..Len(recommendedTools) :
                recommendedTools[i].billingModel = "per_account")
               => \A size \in TechTeamSizes :
                      calculateTechCosts(recommendedTools, size, trainingCostOneTime)
                          .recurringPerMonth = ret.recurringPerMonth
        /\ ret.oneTime = IF trainingCostOneTime = undefined
                         THEN Num(5000)
                         ELSE trainingCostOneTime

\* calculateTechCosts has returned for a team of more than one, without a
\* training cost, for a per_account tool that also carries a per-user price
\* and a per_user tool without one.
C10_Witness ==
    /\ Returned("calculateTechCosts")
    /\ Gt(teamSize, One)
    /\ trainingCostOneTime = undefined /\ ret.oneTime = Num(5000)
    /\ \E i \in 1..Len(recommendedTools) :
           /\ recommendedTools[i].billingModel = "per_account"
           /\ Truthy(recommendedTools[i].licensePerUser)
           /\ Truthy(recommendedTools[i].accountCostPerMonth)
    /\ \E i \in 1..Len(recommendedTools) :
           /\ recommendedTools[i].billingModel = "per_user"
           /\ recommendedTools[i].licensePerUser = undefined
    /\ Gt(ret.recurringPerMonth, Zero)

-----------------------------------------------------------------------------
\* The revenue impact (specification SpecRevenue)

\* Revenue models with each field missing, zero or set
RevenueAmounts == { undefined, Zero, Num(250), Num(1000) }
RevenueLifts == { undefined, Zero, Num(10), Num(33) }
RevenueGrid ==
    { <<>> } \cup
    { <<RevenueModel(r, l)>> : r \in RevenueAmounts, l \in RevenueLifts }

RevenueRuns == { Num(-1), Zero, Num(3), Num(10) }

InitRevenue ==
    /\ ServerStarted /\ PageLoaded
    /\ tasks \in { <<>>, <<Task("draft", Num(10), Num(50), Num(40))>> }
    /\ recommendedTools \in { <<>>, <<Suite>> }
    /\ teamSize = Num(5)
    /\ averageHourlyCost = Num(75)
    /\ revenueModel \in RevenueGrid
    /\ trainingCostOneTime = Num(5000)
    /\ runsPerMonth \in RevenueRuns
    /\ scenarioMultiplier = undefined
    /\ pc = "ready"
    /\ ret = <<>>

CallCalculateRevenueImpact ==
    /\ UNCHANGED web
    /\ pc = "ready"
    /\ ret' = calculateRevenueImpact(revenueModel, runsPerMonth)
    /\ pc' = "calculateRevenueImpact"
    /\ UNCHANGED args

NextRevenue == CallCalculateROI \/ CallCalculateRevenueImpact \/ Return

SpecRevenue == InitRevenue /\ [][NextRevenue]_vars

\* Both fields of the revenue model are present and non-zero
FieldSet(x) == x # undefined /\ x # Zero
RevenueModelSet ==
    /\ revenueModel # <<>>
    /\ FieldSet(revenueModel[1].revenuePerAsset)
    /\ FieldSet(revenueModel[1].expectedIncrementalConversionLiftPct)

\* C11: monthlyUplift of calculateROI is revenuePerAsset *
\* (expectedIncrementalConversionLiftPct / 100) * max(runsPerMonth, 0) when
\* both fields of the revenue model are present and non-zero, and 0 when the
\* model or a field is missing or zero; calculateRevenueImpact itself returns
\* undefined in the latter case.
C11_RevenueUplift ==
    /\ Returned("calculateROI") =>
           ret.monthlyUplift =
               IF RevenueModelSet
               THEN Mul(Mul(revenueModel[1].revenuePerAsset,
                            Div(revenueModel[1].expectedIncrementalConversionLiftPct,
                                Hundred)),
                        MathMax(runsPerMonth, Zero))
               ELSE Zero
    /\ (Returned("calculateRevenueImpact") /\ ~RevenueModelSet) => ret = undefined

\* calculateROI has returned a positive uplift for a revenue model with both
\* fields set and a lift that is no whole fraction.
C11_Witness ==
    /\ Returned("calculateROI")
    /\ RevenueModelSet
    /\ revenueModel[1].expectedIncrementalConversionLiftPct = Num(33)
    /\ Gt(ret.monthlyUplift, Zero)

\* C12: when no revenue model is supplied, or one of its fields is missing or
\* zero, revenueLiftPerRun of the calculateROI result is undefined, not zero.
C12_Original ==
    (Returned("calculateROI") /\ ~RevenueModelSet) =>
        ret.revenueLiftPerRun = undefined

-----------------------------------------------------------------------------
\* Further properties of calculateROI and generateScenarios (specification Spec)

\* C13: pilot3MonthSavings = 3 * (monthlySavings + monthlyUplift) -
\* (trainingCostOneTime + 3 * aiRecurringCostPerMonth) and riskAdjustedSavings
\* = 0.7 * pilot3MonthSavings, which has the same sign and no larger magnitude.
C13_PilotSavings ==
    Returned("calculateROI") =>
        /\ ret.pilot3MonthSavings =
               Sub(Mul(Num(3), Add(ret.monthlySavings, ret.monthlyUplift)),
                   Add(ret.trainingCostOneTime,
                       Mul(Num(3), ret.aiRecurringCostPerMonth)))
        /\ ret.riskAdjustedSavings = Mul(Dec(7, 10), ret.pilot3MonthSavings)
        /\ SignOf(ret.riskAdjustedSavings) = SignOf(ret.pilot3MonthSavings)
        /\ Le(AbsNum(ret.riskAdjustedSavings), AbsNum(ret.pilot3MonthSavings))

\* calculateROI has returned a negative pilot value, built from savings, an
\* uplift, a training cost and a recurring cost that are all positive.
C13_Witness ==
    /\ Returned("calculateROI")
    /\ Gt(ret.monthlySavings, Zero) /\ Gt(ret.monthlyUplift, Zero)
    /\ Gt(ret.trainingCostOneTime, Zero) /\ Gt(ret.aiRecurringCostPerMonth, Zero)
    /\ Lt(ret.pilot3MonthSavings, Zero)
    /\ Lt(ret.pilot3MonthSavings, ret.riskAdjustedSavings)

\* clamp(x, 0, 100)
Clamp100(x) == MathMax(Zero, MathMin(Hundred, x))

\* The tasks with each efficiencyGainPct replaced by
\* clamp(efficiencyGainPct * multiplier, 0, 100) and nothing else changed
Rescaled(ts, multiplier) ==
    [i \in 1..Len(ts) |->
        [name              |-> ts[i].name,
         hoursPerRun       |-> ts[i].hoursPerRun,
         aiCoveragePct     |-> ts[i].aiCoveragePct,
         efficiencyGainPct |-> Clamp100(Mul(ts[i].efficiencyGainPct, multiplier))]]

SameAcrossScenarios(r, q) ==
    /\ r.totalHoursCurrent = q.totalHoursCurrent
    /\ r.costCurrent = q.costCurrent
    /\ r.aiRecurringCostPerMonth = q.aiRecurringCostPerMonth
    /\ r.trainingCostOneTime = q.trainingCostOneTime
    /\ r.revenueLiftPerRun = q.revenueLiftPerRun
    /\ r.monthlyUplift = q.monthlyUplift

\* C14: the multiplier enters calculateROI only through the rescaled
\* efficiency gains: the result is that of the rescaled tasks at multiplier
\* 1; and the three scenarios agree on totalHoursCurrent, costCurrent,
\* aiRecurringCostPerMonth, trainingCostOneTime, revenueLiftPerRun and
\* monthlyUplift.
C14_MultiplierFrame ==
    /\ Returned("calculateROI") =>
           ret = calculateROI(Rescaled(tasks, scenarioMultiplier), recommendedTools,
                              teamSize, averageHourlyCost, revenueModel,
                              trainingCostOneTime, runsPerMonth, One)
    /\ Returned("generateScenarios") =>
           \A i, j \in 1..Len(ret) :
               SameAcrossScenarios(ret[i].calculation, ret[j].calculation)

\* generateScenarios has returned three scenarios with different future
\* hours, for tools, a revenue uplift and hours that are not zero.
C14_Witness ==
    /\ Returned("generateScenarios")
    /\ Lt(ret[3].calculation.totalHoursFuture, ret[2].calculation.totalHoursFuture)
    /\ Lt(ret[2].calculation.totalHoursFuture, ret[1].calculation.totalHoursFuture)
    /\ Gt(ret[1].calculation.totalHoursCurrent, Zero)
    /\ Gt(ret[1].calculation.aiRecurringCostPerMonth, Zero)
    /\ Gt(ret[1].calculation.monthlyUplift, Zero)

NumericFields ==
    { "totalHoursCurrent", "totalHoursFuture", "costCurrent", "costFuture",
      "monthlySavings", "aiRecurringCostPerMonth", "trainingCostOneTime",
      "revenueLiftPerRun", "monthlyNetBenefit", "roiPercentage", "paybackMonths",
      "pilot3MonthSavings", "riskAdjustedSavings", "throughputMultiplier",
      "additionalMonthlyCost", "monthlyUplift" }

Classifications ==
    { "AI Performance Investment", "Cost Savings Initiative", "Neutral" }

\* C15: for in-domain inputs calculateROI returns a complete record: every
\* numeric field is a finite number, but for paybackMonths which is finite
\* or +Infinity, and each division by a quantity that may be zero has its
\* fallback: payback +Infinity, ROI 0, throughput 1.
C15_Total ==
    (Returned("calculateROI") /\ InDomain) =>
        /\ DOMAIN ret = NumericFields \cup {"classification", "showNetBenefitTooltip"}
        /\ \A f \in NumericFields \ {"paybackMonths"} : IsFinite(ret[f])
        /\ IsFinite(ret.paybackMonths) \/ ret.paybackMonths = Infinity
        /\ ret.classification \in Classifications
        /\ ret.showNetBenefitTooltip \in BOOLEAN
        /\ Le(ret.monthlyNetBenefit, Zero) => ret.paybackMonths = Infinity
        /\ Le(Add(ret.trainingCostOneTime, Mul(ret.aiRecurringCostPerMonth, Num(12))),
              Zero) => ret.roiPercentage = Zero
        /\ Le(ret.totalHoursFuture, Zero) => ret.throughputMultiplier = One

\* calculateROI has returned for no tasks, no tools, no runs and no training
\* cost, with all three fallbacks.
C15_Witness ==
    /\ Returned("calculateROI") /\ InDomain
    /\ tasks = <<>> /\ recommendedTools = <<>>
    /\ runsPerMonth = Zero /\ trainingCostOneTime = Zero
    /\ ret.paybackMonths = Infinity
    /\ ret.roiPercentage = Zero
    /\ ret.throughputMultiplier = One

-----------------------------------------------------------------------------
\* Calls of calculateROI one after another on the same argument objects
\* (specification SpecCalls).  Arrays and records are passed by reference:
\* after a call the caller's tasks, tools and revenue model are what the body
\* has left in its parameters.  ret is the log of the calls made so far.

MaxCalls == 3     \* calls in one behaviour

arguments ==
    <<tasks, recommendedTools, teamSize, averageHourlyCost, revenueModel,
      trainingCostOneTime, runsPerMonth>>

InitCalls ==
    /\ ServerStarted /\ PageLoaded
    /\ tasks \in { <<>>,
                   <<Task("draft", Num(10), Num(50), Num(40))>>,
                   <<Task("draft", Num(10), Num(50), Num(40)),
                     Task("edit", Num(40), Hundred, Num(80))>>,
                   <<Task("over", Num(10), Num(150), Hundred)>> }
    /\ recommendedTools \in { <<>>, <<Suite, Seat>> }
    /\ teamSize = Num(5)
    /\ averageHourlyCost = Num(75)
    /\ revenueModel \in { <<>>, <<RevenueModel(Num(1000), Num(10))>> }
    /\ trainingCostOneTime = Num(5000)
    /\ runsPerMonth = Num(10)
    /\ scenarioMultiplier = undefined
    /\ pc = "ready"
    /\ ret = <<>>

\* The state a call leaves behind, given the scope at its return statement
AfterCall(m, scope) ==
    /\ UNCHANGED web
    /\ ret' = Append(ret, [inputs      |-> arguments,
                           multiplier  |-> m,
                           calculation |-> returnValue(scope)])
    /\ tasks' = scope.tasks
    /\ recommendedTools' = scope.recommendedTools
    /\ revenueModel' = scope.revenueModel
    /\ scenarioMultiplier' = m
    /\ UNCHANGED <<teamSize, averageHourlyCost, trainingCostOneTime, runsPerMonth, pc>>

InvokeCalculateROI ==
    /\ pc = "ready"
    /\ Len(ret) < MaxCalls
    /\ \E m \in Multipliers :
           AfterCall(m, calculateROI_body(tasks, recommendedTools, teamSize,
                                          averageHourlyCost, revenueModel,
                                          trainingCostOneTime, runsPerMonth, m))

NextCalls == InvokeCalculateROI

SpecCalls == InitCalls /\ [][NextCalls]_vars

\* The scenarios generateScenarios returns for the inputs of a logged call
ScenariosOf(call) ==
    generateScenarios(call.inputs[1], call.inputs[2], call.inputs[3], call.inputs[4],
                      call.inputs[5], call.inputs[6], call.inputs[7])

\* C16: two calls with identical inputs return identical outputs, and a
\* scenario's calculation is the same whatever calls were made before it and
\* in whatever order: it is the one generateScenarios returns for the inputs
\* of the first call.
C16_Deterministic ==
    /\ \A i, j \in 1..Len(ret) :
           (ret[i].inputs = ret[j].inputs /\ ret[i].multiplier = ret[j].multiplier)
               => ret[i].calculation = ret[j].calculation
    /\ ret # <<>> =>
           \A scenarios \in {ScenariosOf(ret[1])} :
               \A i \in 1..Len(ret) : \A k \in 1..3 :
                   scenarios[k].multiplier = ret[i].multiplier
                       => scenarios[k].calculation = ret[i].calculation

\* The scenarios have been computed in the order Aggressive, Conservative,
\* Aggressive, with different results for the two multipliers.
C16_Witness ==
    /\ Len(ret) = 3
    /\ ret[1].multiplier = Dec(13, 10)
    /\ ret[2].multiplier = Dec(7, 10)
    /\ ret[3].multiplier = Dec(13, 10)
    /\ ret[1].calculation # ret[2].calculation
    /\ ret[3].calculation = ret[1].calculation

\* C17: no call modifies its inputs: the task list with every field of every
\* task, the tool list and the revenue model are after any number of calls
\* what they were before each of them, so a Base call made after a
\* Conservative one is given the original efficiency gains.
C17_InputsUnchanged ==
    \A i \in 1..Len(ret) :
        /\ ret[i].inputs = arguments
        /\ \A k \in 1..Len(tasks) :
               ret[i].inputs[1][k].efficiencyGainPct = ret[1].inputs[1][k].efficiencyGainPct

\* Conservative has been computed first and Base second, with different
\* results, for tasks, tools and a revenue model that are not empty.
C17_Witness ==
    /\ Len(ret) >= 2
    /\ ret[1].multiplier = Dec(7, 10)
    /\ ret[2].multiplier = One
    /\ ret[1].calculation.totalHoursFuture # ret[2].calculation.totalHoursFuture
    /\ tasks # <<>> /\ recommendedTools # <<>> /\ revenueModel # <<>>

\* The single task of the worked examples: 10 hours per run, 50% coverage,
\* 40% gain, run 10 times a month at 75 an hour, Base multiplier
ExampleCall ==
    /\ Returned("calculateROI")
    /\ Len(tasks) = 1
    /\ tasks[1].hoursPerRun = Num(10)
    /\ tasks[1].aiCoveragePct = Num(50)
    /\ tasks[1].efficiencyGainPct = Num(40)
    /\ runsPerMonth = Num(10)
    /\ averageHourlyCost = Num(75)
    /\ scenarioMultiplier = One

\* C18: for the example task with no tools, no revenue model and a training
\* cost of 5000, calculateROI returns totalHoursCurrent 100, totalHoursFuture
\* 80, costCurrent 7500, costFuture 6000, monthlySavings 1500,
\* aiRecurringCostPerMonth 0, monthlyNetBenefit 1500, paybackMonths 5000/1500
\* (about 3.33) and classification 'Cost Savings Initiative'.
C18_LaborOnlyExample ==
    (/\ ExampleCall
     /\ recommendedTools = <<>>
     /\ revenueModel = <<>>
     /\ trainingCostOneTime = Num(5000)) =>
        /\ ret.totalHoursCurrent = Hundred
        /\ ret.totalHoursFuture = Num(80)
        /\ ret.costCurrent = Num(7500)
        /\ ret.costFuture = Num(6000)
        /\ ret.monthlySavings = Num(1500)
        /\ ret.aiRecurringCostPerMonth = Zero
        /\ ret.monthlyNetBenefit = Num(1500)
        /\ ret.paybackMonths = Div(Num(5000), Num(1500))
        /\ Gt(ret.paybackMonths, Dec(333, 100)) /\ Lt(ret.paybackMonths, Dec(334, 100))
        /\ ret.classification = "Cost Savings Initiative"

\* calculateROI has returned for the labor-only example, with a payback
\* between 3 and 4 months.
C18_Witness ==
    /\ ExampleCall
    /\ recommendedTools = <<>>
    /\ revenueModel = <<>>
    /\ trainingCostOneTime = Num(5000)
    /\ ret.monthlySavings = Num(1500)
    /\ Gt(ret.paybackMonths, Num(3)) /\ Lt(ret.paybackMonths, Num(4))

\* The example's tool list: one per_account tool at 2000 a month, for a team of 5
ExampleTool ==
    /\ Len(recommendedTools) = 1
    /\ recommendedTools[1].billingModel = "per_account"
    /\ recommendedTools[1].accountCostPerMonth = Num(2000)
    /\ teamSize = Num(5)

\* C19: for the example task with a team of 5 and one per_account tool at
\* 2000 a month, a revenue model of 1000 per asset and a 10% lift gives
\* monthly uplift 1000, monthlyNetBenefit 500, additionalMonthlyCost 500,
\* classification 'AI Performance Investment' and showNetBenefitTooltip
\* true; no revenue model gives monthlyNetBenefit -500, paybackMonths
\* +Infinity and classification 'Neutral'.
C19_ToolExample ==
    (ExampleCall /\ ExampleTool) =>
        /\ revenueModel = <<RevenueModel(Num(1000), Num(10))>> =>
               /\ ret.monthlyUplift = Num(1000)
               /\ ret.monthlyNetBenefit = Num(500)
               /\ ret.additionalMonthlyCost = Num(500)
               /\ ret.classification = "AI Performance Investment"
               /\ ret.showNetBenefitTooltip = TRUE
        /\ revenueModel = <<>> =>
               /\ ret.monthlyNetBenefit = Num(-500)
               /\ ret.paybackMonths = Infinity
               /\ ret.classification = "Neutral"

\* calculateROI has returned for the example with the tool and the revenue
\* model: the tool costs more than the labor it saves, and the uplift
\* exceeds the difference.
C19_Witness ==
    /\ ExampleCall /\ ExampleTool
    /\ revenueModel = <<RevenueModel(Num(1000), Num(10))>>
    /\ ret.aiRecurringCostPerMonth = Num(2000)
    /\ Gt(ret.aiRecurringCostPerMonth, ret.monthlySavings)
    /\ Gt(ret.monthlyUplift, ret.additionalMonthlyCost)
    /\ ret.showNetBenefitTooltip = TRUE

-----------------------------------------------------------------------------
\* The benchmarks endpoint: what POST does with the generator's answer
\* (specification SpecBenchmarks).  ret is the parsed answer, `result` in the
\* code, and then the body of the response.

MaxGenerated == 2     \* longest tool list in a generator's answer

\* JavaScript `x || d` for an optional number
OrElse(x, d) == IF Truthy(x) THEN x ELSE d

\* name.toLowerCase(), for the tool names of the model
toLowerCase(name) ==
    CASE name = "Descript" -> "descript"
      [] name = "Otter.ai" -> "otter.ai"
      [] name = "Trint" -> "trint"
      [] name = "Runway" -> "runway"
      [] name = "Veo 3" -> "veo 3"
      [] name = "Apollo.io" -> "apollo.io"
      [] name = "Smartlead.ai" -> "smartlead.ai"
      [] name = "Smartlead + Clay" -> "smartlead + clay"
      [] name = "ChatGPT" -> "chatgpt"
      [] name = "Clay" -> "clay"
      [] name = "Lusha" -> "lusha"
      [] name = "PhantomBuster" -> "phantombuster"
      [] name = "Waalaxy" -> "waalaxy"
      [] OTHER -> name

\* The keywords of filterRedundantTools that a lower-case name contains
keywordsIn(nameLower) ==
    CASE nameLower = "descript" -> {"descript"}
      [] nameLower = "otter.ai" -> {"otter"}
      [] nameLower = "trint" -> {"trint"}
      [] nameLower = "runway" -> {"runway"}
      [] nameLower = "veo 3" -> {"veo"}
      [] nameLower = "apollo.io" -> {"apollo"}
      [] nameLower = "smartlead.ai" -> {"smartlead"}
      [] nameLower = "smartlead + clay" -> {"smartlead", "clay"}
      [] nameLower = "clay" -> {"clay"}
      [] nameLower = "lusha" -> {"lusha"}
      [] nameLower = "phantombuster" -> {"phantombuster"}
      [] nameLower = "waalaxy" -> {"waalaxy"}
      [] OTHER -> {}

\* keywords.some((kw) => nameLower.includes(kw))
includesSome(nameLower, keywords) == keywordsIn(nameLower) \cap keywords # {}

highEndVideoKeywords == {"runway", "veo", "flow pro", "gen-4"}
outreachSequencerKeywords == {"apollo", "smartlead"}
enrichmentKeywords == {"zoominfo", "clay", "dropcontact", "lusha"}
automationKeywords == {"phantombuster", "waalaxy"}
transcriptionOnlyTools == {"otter", "trint", "sonix"}

\* toolNames.some((n) => n.includes("descript"))
hasDescript(tools) ==
    \E i \in 1..Len(tools) : includesSome(toLowerCase(tools[i].name), {"descript"})

\* A faulty variant: a tool whose name was already added is added again.
filterStep_KeepsDuplicates(f, tool, toolNameLower, descript) ==
    [filtered |->
        IF \/ descript /\ includesSome(toolNameLower, transcriptionOnlyTools)
           \/ f.hasHighEndVideo /\ includesSome(toolNameLower, highEndVideoKeywords)
           \/ f.hasOutreachSequencer /\ includesSome(toolNameLower, outreachSequencerKeywords)
           \/ f.hasEnrichmentTool /\ includesSome(toolNameLower, enrichmentKeywords)
           \/ f.hasAutomationTool /\ includesSome(toolNameLower, automationKeywords)
        THEN f.filtered
        ELSE Append(f.filtered, tool),
     hasHighEndVideo |->
        f.hasHighEndVideo \/ includesSome(toolNameLower, highEndVideoKeywords),
     hasOutreachSequencer |->
        f.hasOutreachSequencer \/ includesSome(toolNameLower, outreachSequencerKeywords),
     hasEnrichmentTool |->
        f.hasEnrichmentTool \/ includesSome(toolNameLower, enrichmentKeywords),
     hasAutomationTool |->
        f.hasAutomationTool \/ includesSome(toolNameLower, automationKeywords)]

\* One iteration of the for loop of filterRedundantTools: f is the loop's
\* state (filtered and the four flags) before it.
filterStep(f, tool, toolNameLower, descript) ==
    [filtered |->
        IF \/ descript /\ includesSome(toolNameLower, transcriptionOnlyTools)
           \/ f.hasHighEndVideo /\ includesSome(toolNameLower, highEndVideoKeywords)
           \/ f.hasOutreachSequencer /\ includesSome(toolNameLower, outreachSequencerKeywords)
           \/ f.hasEnrichmentTool /\ includesSome(toolNameLower, enrichmentKeywords)
           \/ f.hasAutomationTool /\ includesSome(toolNameLower, automationKeywords)
           \/ \E k \in 1..Len(f.filtered) : toLowerCase(f.filtered[k].name) = toolNameLower
        THEN f.filtered
        ELSE Append(f.filtered, tool),
     hasHighEndVideo |->
        f.hasHighEndVideo \/ includesSome(toolNameLower, highEndVideoKeywords),
     hasOutreachSequencer |->
        f.hasOutreachSequencer \/ includesSome(toolNameLower, outreachSequencerKeywords),
     hasEnrichmentTool |->
        f.hasEnrichmentTool \/ includesSome(toolNameLower, enrichmentKeywords),
     hasAutomationTool |->
        f.hasAutomationTool \/ includesSome(toolNameLower, automationKeywords)]

RECURSIVE filterLoop(_, _)
filterLoop(tools, n) ==
    IF n = 0
    THEN [filtered |-> <<>>, hasHighEndVideo |-> FALSE, hasOutreachSequencer |-> FALSE,
          hasEnrichmentTool |-> FALSE, hasAutomationTool |-> FALSE]
    ELSE filterStep(filterLoop(tools, n - 1), tools[n], toLowerCase(tools[n].name),
                    hasDescript(tools))

filterRedundantTools(tools) == filterLoop(tools, Len(tools)).filtered

\* The callback of result.tasks.map
clampTask(task) ==
    [name              |-> task.name,
     hoursPerRun       |-> MathMax(Dec(5, 10), MathMin(task.hoursPerRun, Num(40))),
     aiCoveragePct     |-> MathMax(Zero, MathMin(task.aiCoveragePct, Hundred)),
     efficiencyGainPct |-> MathMax(Zero, MathMin(task.efficiencyGainPct, Hundred))]

\* if (!cost || cost <= 0) cost = other || 50
costOrFallback(cost, other) ==
    IF ~Truthy(cost) \/ Le(cost, Zero) THEN OrElse(other, Num(50)) ELSE cost

\* The callback of result.recommendedTools.map
normalizeTool(tool) ==
    IF tool.billingModel = "per_account"
    THEN Tool(tool.name, "per_account", undefined,
              costOrFallback(tool.accountCostPerMonth, tool.licensePerUser))
    ELSE Tool(tool.name, "per_user",
              costOrFallback(tool.licensePerUser, tool.accountCostPerMonth), undefined)

\* The clamps of result.revenueModel, when it is present
clampRevenueModel(model) ==
    IF model = <<>>
    THEN <<>>
    ELSE <<RevenueModel(
             IF model[1].revenuePerAsset # undefined /\ Lt(model[1].revenuePerAsset, Zero)
             THEN Zero
             ELSE model[1].revenuePerAsset,
             IF model[1].expectedIncrementalConversionLiftPct # undefined
             THEN MathMax(Zero, MathMin(model[1].expectedIncrementalConversionLiftPct, Hundred))
             ELSE undefined)>>

\* What the generator can answer
GeneratedNames == {"Descript", "Otter.ai"}
GeneratedBillingModels == {"per_user", "per_account", "per_seat"}
GeneratedLicenses == {undefined, Zero, Num(-30), Num(20)}
GeneratedAccountCosts == {undefined, Zero, Num(-30), Num(2000)}
GeneratedTools ==
    { Tool(n, b, l, a) : n \in GeneratedNames, b \in GeneratedBillingModels,
                         l \in GeneratedLicenses, a \in GeneratedAccountCosts }
GeneratedTasks == { <<>>, <<Task("draft", Num(60), Num(120), Num(-5))>> }
GeneratedRevenueModels == { <<>>, <<RevenueModel(Num(-1000), Num(150))>> }
GeneratedConfidence == { undefined, Num(120) }

InitBenchmarks ==
    /\ ServerStarted /\ PageLoaded
    /\ ret \in [tasks            : GeneratedTasks,
                recommendedTools : SeqsUpTo(GeneratedTools, MaxGenerated),
                revenueModel     : GeneratedRevenueModels,
                confidencePct    : GeneratedConfidence]
    /\ pc = "parsed"
    /\ tasks = <<>>
    /\ recommendedTools = <<>>
    /\ teamSize = Num(5)
    /\ averageHourlyCost = Num(75)
    /\ revenueModel = <<>>
    /\ trainingCostOneTime = undefined
    /\ runsPerMonth = undefined
    /\ scenarioMultiplier = undefined

\* if (!result.tasks?.length || !result.recommendedTools?.length) return 502
RespondIncomplete ==
    /\ UNCHANGED web
    /\ pc = "parsed"
    /\ ret.tasks = <<>> \/ ret.recommendedTools = <<>>
    /\ ret' = [error |-> "OpenAI returned an incomplete benchmark result", status |-> 502]
    /\ pc' = "failed"
    /\ UNCHANGED args

\* The clamps, the normalization and the filter, then the response
RespondBenchmarks ==
    /\ UNCHANGED web
    /\ pc = "parsed"
    /\ ret.tasks # <<>> /\ ret.recommendedTools # <<>>
    /\ ret' = [tasks |-> [i \in 1..Len(ret.tasks) |-> clampTask(ret.tasks[i])],
               recommendedTools |->
                   filterRedundantTools(
                       [i \in 1..Len(ret.recommendedTools) |->
                           normalizeTool(ret.recommendedTools[i])]),
               revenueModel |-> clampRevenueModel(ret.revenueModel),
               confidencePct |->
                   MathMax(Zero, MathMin(Default(ret.confidencePct, Zero), Hundred))]
    /\ pc' = "responded"
    /\ UNCHANGED args

NextBenchmarks == RespondIncomplete \/ RespondBenchmarks

SpecBenchmarks == InitBenchmarks /\ [][NextBenchmarks]_vars

\* C20: every tool of the endpoint's response has exactly one cost field
\* defined, the one of its billingModel (licensePerUser for per_user,
\* accountCostPerMonth for per_account), and that field is >= 0, whatever
\* the generator answered.
C20_Original ==
    pc = "responded" =>
        \A i \in 1..Len(ret.recommendedTools) :
            /\ ret.recommendedTools[i].billingModel \in {"per_user", "per_account"}
            /\ ret.recommendedTools[i].billingModel = "per_user" =>
                   /\ ret.recommendedTools[i].accountCostPerMonth = undefined
                   /\ ret.recommendedTools[i].licensePerUser # undefined
                   /\ Ge(ret.recommendedTools[i].licensePerUser, Zero)
            /\ ret.recommendedTools[i].billingModel = "per_account" =>
                   /\ ret.recommendedTools[i].licensePerUser = undefined
                   /\ ret.recommendedTools[i].accountCostPerMonth # undefined
                   /\ Ge(ret.recommendedTools[i].accountCostPerMonth, Zero)

-----------------------------------------------------------------------------
\* calculateROI on amounts whose sums, products and quotients are rounded
\* (specification SpecRounding).  The amounts are written for Precision:
\* 2^Precision is the first integer whose neighbours are 2 apart.

Review == Task("review", One, Hundred, Hundred)
Platform == Tool("platform", "per_account", undefined, Num(Pow2(Precision)))

RoundingTasks == { <<>>, <<Review>>, <<Task("draft", Num(10), Num(50), Num(40))>> }
RoundingTools == { <<>>, <<Platform>>, <<Suite>> }
RoundingHourlyCosts == { Num(-10), Dec(3, 2), Num(75) }
RoundingRevenueModels ==
    { <<>>,
      <<RevenueModel(Num(Pow2(Precision) - 1), Hundred)>>,
      <<RevenueModel(Num(Pow2(Precision) + 6), Hundred)>>,
      <<RevenueModel(Num(1000), Num(10))>> }
RoundingTrainingCosts == { Num(5000), Num(12 * (Pow2(Precision) + 6) + 8) }
RoundingRuns == { One, Num(10) }

InitRounding ==
    /\ ServerStarted /\ PageLoaded
    /\ tasks \in RoundingTasks
    /\ recommendedTools \in RoundingTools
    /\ teamSize = Num(5)
    /\ averageHourlyCost \in RoundingHourlyCosts
    /\ revenueModel \in RoundingRevenueModels
    /\ trainingCostOneTime \in RoundingTrainingCosts
    /\ runsPerMonth \in RoundingRuns
    /\ scenarioMultiplier = undefined
    /\ pc = "ready"
    /\ ret = <<>>

NextRounding == CallCalculateROI \/ Return

SpecRounding == InitRounding /\ [][NextRounding]_vars

\* The revenue model, if any, has no negative field
RevenueInDomain ==
    \A i \in 1..Len(revenueModel) :
        /\ revenueModel[i].revenuePerAsset = undefined
               \/ Ge(revenueModel[i].revenuePerAsset, Zero)
        /\ revenueModel[i].expectedIncrementalConversionLiftPct = undefined
               \/ Ge(revenueModel[i].expectedIncrementalConversionLiftPct, Zero)

\* C22 as stated: for in-domain inputs a result with monthlyNetBenefit <= 0
\* is classified 'Neutral'.
C22_Original ==
    (Returned("calculateROI") /\ InDomain /\ RevenueInDomain) =>
        (Le(ret.monthlyNetBenefit, Zero) => ret.classification = "Neutral")

\* C22: for in-domain inputs a result with monthlyNetBenefit < 0 is
\* classified 'Neutral'; a 'Cost Savings Initiative' result has
\* monthlyNetBenefit > 0 and a finite paybackMonths; an 'AI Performance
\* Investment' result has monthlyNetBenefit >= 0, where 0 (and an infinite
\* payback) happens only when savings + uplift is rounded down to the
\* recurring cost.
C22_NeutralWhenNegative ==
    (Returned("calculateROI") /\ InDomain /\ RevenueInDomain) =>
        /\ Lt(ret.monthlyNetBenefit, Zero) => ret.classification = "Neutral"
        /\ ret.classification = "Cost Savings Initiative" =>
               Gt(ret.monthlyNetBenefit, Zero) /\ IsFinite(ret.paybackMonths)
        /\ ret.classification = "AI Performance Investment" =>
               /\ Ge(ret.monthlyNetBenefit, Zero)
               /\ IsFinite(ret.paybackMonths) = Gt(ret.monthlyNetBenefit, Zero)
               /\ ret.monthlyNetBenefit = Zero =>
                      /\ Add(ret.monthlySavings, ret.monthlyUplift)
                             = ret.aiRecurringCostPerMonth
                      /\ Gt(ret.monthlyUplift,
                            Sub(ret.aiRecurringCostPerMonth, ret.monthlySavings))

\* calculateROI has returned 'AI Performance Investment' for in-domain
\* inputs with a net benefit of 0 and no payback: the uplift exceeds the
\* rounded additional cost, and savings + uplift rounds to the recurring cost.
C22_Witness ==
    /\ Returned("calculateROI") /\ InDomain /\ RevenueInDomain
    /\ ret.classification = "AI Performance Investment"
    /\ ret.monthlyNetBenefit = Zero
    /\ ret.paybackMonths = Infinity
    /\ Gt(ret.monthlySavings, Zero)
    /\ Gt(ret.monthlyUplift, ret.additionalMonthlyCost)

\* The tools cost nothing negative and the training cost is not negative
CostsInDomain ==
    /\ \A i \in 1..Len(recommendedTools) : ToolInDomain(recommendedTools[i])
    /\ Ge(ret.trainingCostOneTime, Zero)

\* C24 as stated: with training and tool costs >= 0, paybackMonths <= 12
\* implies roiPercentage >= 0.
C24_Original ==
    (Returned("calculateROI") /\ CostsInDomain) =>
        (Le(ret.paybackMonths, Num(horizonMonths)) => Ge(ret.roiPercentage, Zero))

\* C24: with training and tool costs >= 0, paybackMonths < 12 implies
\* roiPercentage >= 0; at paybackMonths = 12 the ROI can be negative only
\* when the training cost exceeds the rounded 12 * monthlyNetBenefit.
C24_PaybackWithinHorizon ==
    (Returned("calculateROI") /\ CostsInDomain) =>
        /\ Lt(ret.paybackMonths, Num(horizonMonths)) => Ge(ret.roiPercentage, Zero)
        /\ (ret.paybackMonths = Num(horizonMonths) /\ Lt(ret.roiPercentage, Zero)) =>
               Lt(Mul(ret.monthlyNetBenefit, Num(horizonMonths)), ret.trainingCostOneTime)

\* calculateROI has returned a payback of exactly 12 months with a negative
\* ROI, for costs that are not negative.
C24_Witness ==
    /\ Returned("calculateROI") /\ CostsInDomain
    /\ ret.paybackMonths = Num(horizonMonths)
    /\ Lt(ret.roiPercentage, Zero)
    /\ Gt(ret.monthlyNetBenefit, Zero)

\* The classification with the two tests in the other order: 'Cost Savings
\* Initiative' first, 'AI Performance Investment' second
classifyCostSavingsFirst(additionalCost, monthlyUplift, savings, aiRecurringCostPerMonth) ==
    IF Gt(savings, aiRecurringCostPerMonth)
    THEN [classification |-> "Cost Savings Initiative", showNetBenefitTooltip |-> FALSE]
    ELSE IF Gt(additionalCost, Zero) /\ Gt(monthlyUplift, additionalCost)
         THEN [classification |-> "AI Performance Investment", showNetBenefitTooltip |-> TRUE]
         ELSE [classification |-> "Neutral", showNetBenefitTooltip |-> FALSE]

\* C23: in every result of calculateROI, additionalMonthlyCost > 0 and
\* monthlySavings > aiRecurringCostPerMonth do not hold together, and the
\* classification is the one the two tests give in the other order.
C23_ExclusiveConditions ==
    Returned("calculateROI") =>
        /\ ~(/\ Gt(ret.additionalMonthlyCost, Zero)
             /\ Gt(ret.monthlySavings, ret.aiRecurringCostPerMonth))
        /\ classifyCostSavingsFirst(ret.additionalMonthlyCost, ret.monthlyUplift,
                                    ret.monthlySavings, ret.aiRecurringCostPerMonth)
               = [classification |-> ret.classification,
                  showNetBenefitTooltip |-> ret.showNetBenefitTooltip]

\* calculateROI has classified a result 'AI Performance Investment': the
\* first test holds, with savings that are positive but below the recurring
\* cost.
C23_Witness ==
    /\ Returned("calculateROI")
    /\ ret.classification = "AI Performance Investment"
    /\ Gt(ret.additionalMonthlyCost, Zero)
    /\ Gt(ret.monthlySavings, Zero)
    /\ Lt(ret.monthlySavings, ret.aiRecurringCostPerMonth)

-----------------------------------------------------------------------------
\* The rate limiter of the benchmarks endpoint (specification SpecRateLimit).
\* arrivals is the workload: who calls, and the value of Date.now() when the
\* call is handled.  ret is the log of the calls handled so far.

RATE_LIMIT_MAX_REQUESTS == 10
RATE_LIMIT_WINDOW_MS == 60 * 1000
MIN_REQUEST_INTERVAL_MS == 1000

\* rateLimitMap.set(key, value)
mapSet(map, key, value) ==
    [k \in DOMAIN map \cup {key} |-> IF k = key THEN value ELSE map[k]]

\* { count: 1, resetTime: now + RATE_LIMIT_WINDOW_MS, timestamps: [now] }
newWindow(t) ==
    [count |-> 1, resetTime |-> t + RATE_LIMIT_WINDOW_MS, timestamps |-> <<t>>]

\* The test for too-fast requests
isTooFast(record, t) ==
    /\ Len(record.timestamps) > 0
    /\ t - record.timestamps[Len(record.timestamps)] < MIN_REQUEST_INTERVAL_MS

\* record.timestamps.push(now) of the too-fast branch
pushed(record, t) == [record EXCEPT !.timestamps = Append(@, t)]

\* timestamps.slice(-20) when there are more than 20
lastTwenty(timestamps) ==
    IF Len(timestamps) > 20
    THEN SubSeq(timestamps, Len(timestamps) - 19, Len(timestamps))
    ELSE timestamps

\* record.count += 1; record.timestamps.push(now); and the slice
counted(record, t) ==
    [count      |-> record.count + 1,
     resetTime  |-> record.resetTime,
     timestamps |-> lastTwenty(Append(record.timestamps, t))]

\* A faulty variant: the call that finds count equal to the maximum is
\* still let through.
checkRateLimit_OffByOne(map, identifier, t) ==
    IF identifier \notin DOMAIN map \/ t > map[identifier].resetTime
    THEN [map |-> mapSet(map, identifier, newWindow(t)),
          allowed |-> TRUE, remaining |-> RATE_LIMIT_MAX_REQUESTS - 1,
          resetTime |-> t + RATE_LIMIT_WINDOW_MS, tooFast |-> FALSE]
    ELSE IF isTooFast(map[identifier], t)
    THEN [map |-> mapSet(map, identifier, pushed(map[identifier], t)),
          allowed |-> FALSE, remaining |-> 0,
          resetTime |-> map[identifier].resetTime, tooFast |-> TRUE]
    ELSE IF map[identifier].count > RATE_LIMIT_MAX_REQUESTS
    THEN [map |-> map,
          allowed |-> FALSE, remaining |-> 0,
          resetTime |-> map[identifier].resetTime, tooFast |-> FALSE]
    ELSE [map |-> mapSet(map, identifier, counted(map[identifier], t)),
          allowed |-> TRUE,
          remaining |-> RATE_LIMIT_MAX_REQUESTS - (map[identifier].count + 1),
          resetTime |-> map[identifier].resetTime, tooFast |-> FALSE]

\* checkRateLimit(identifier) with Date.now() = t: the map it leaves and the
\* value it returns (tooFast is FALSE where the code leaves it out)
checkRateLimit(map, identifier, t) ==
    IF identifier \notin DOMAIN map \/ t > map[identifier].resetTime
    THEN [map |-> mapSet(map, identifier, newWindow(t)),
          allowed |-> TRUE, remaining |-> RATE_LIMIT_MAX_REQUESTS - 1,
          resetTime |-> t + RATE_LIMIT_WINDOW_MS, tooFast |-> FALSE]
    ELSE IF isTooFast(map[identifier], t)
    THEN [map |-> mapSet(map, identifier, pushed(map[identifier], t)),
          allowed |-> FALSE, remaining |-> 0,
          resetTime |-> map[identifier].resetTime, tooFast |-> TRUE]
    ELSE IF map[identifier].count >= RATE_LIMIT_MAX_REQUESTS
    THEN [map |-> map,
          allowed |-> FALSE, remaining |-> 0,
          resetTime |-> map[identifier].resetTime, tooFast |-> FALSE]
    ELSE [map |-> mapSet(map, identifier, counted(map[identifier], t)),
          allowed |-> TRUE,
          remaining |-> RATE_LIMIT_MAX_REQUESTS - (map[identifier].count + 1),
          resetTime |-> map[identifier].resetTime, tooFast |-> FALSE]

MaxArrivals == 22     \* longest workload

\* Milliseconds between one call and the next
Gaps == {0, 1, 999, 1000, 1001, 6000, 60000, 60001}

\* How many gaps of the first kind a workload has before it changes pace
Phases == {1, 9, 10, 20}

\* The time of the i-th call: i - 1 gaps, the first n of them g1 long and
\* the others g2
arrivalTime(i, n, g1, g2) ==
    IF i - 1 <= n THEN (i - 1) * g1 ELSE n * g1 + (i - 1 - n) * g2

\* One client calling, or two clients calling in turn
Workloads ==
    { [i \in 1..MaxArrivals |->
          [identifier |-> IF two /\ i % 2 = 0 THEN "10.0.0.2" ELSE "10.0.0.1",
           at         |-> arrivalTime(i, n, g1, g2)]] :
      two \in BOOLEAN, n \in Phases, g1 \in Gaps, g2 \in Gaps }

InitRateLimit ==
    /\ rateLimitMap = <<>>
    /\ now = 0
    /\ arrivals \in Workloads
    /\ PageLoaded
    /\ tasks = <<>>
    /\ recommendedTools = <<>>
    /\ teamSize = Num(5)
    /\ averageHourlyCost = Num(75)
    /\ revenueModel = <<>>
    /\ trainingCostOneTime = undefined
    /\ runsPerMonth = undefined
    /\ scenarioMultiplier = undefined
    /\ pc = "ready"
    /\ ret = <<>>

\* The next call arrives and checkRateLimit handles it.
logged(call, checked) ==
    [identifier |-> call.identifier, at |-> call.at, map |-> checked.map,
     allowed |-> checked.allowed, remaining |-> checked.remaining,
     resetTime |-> checked.resetTime, tooFast |-> checked.tooFast]

CallCheckRateLimit ==
    /\ arrivals # <<>>
    /\ now' = arrivals[1].at
    /\ rateLimitMap' =
           checkRateLimit(rateLimitMap, arrivals[1].identifier, arrivals[1].at).map
    /\ ret' = Append(ret, logged(arrivals[1],
                     checkRateLimit(rateLimitMap, arrivals[1].identifier, arrivals[1].at)))
    /\ arrivals' = Tail(arrivals)
    /\ UNCHANGED <<args, pc, home, userInputs>>

NextRateLimit == CallCheckRateLimit

SpecRateLimit == InitRateLimit /\ [][NextRateLimit]_vars

\* The logged calls of one client that fall in the window ending at resetTime
\* and were allowed
AllowedInWindow(identifier, resetTime) ==
    { j \in 1..Len(ret) : /\ ret[j].identifier = identifier
                          /\ ret[j].resetTime = resetTime
                          /\ ret[j].allowed }

\* C25: after any sequence of checkRateLimit calls at non-decreasing times,
\* every record has count <= 10, at most 10 calls of one client in one
\* window were allowed, and a call leaves the records of the other clients
\* as they were.
C25_WindowLimit ==
    /\ \A id \in DOMAIN rateLimitMap :
           rateLimitMap[id].count <= RATE_LIMIT_MAX_REQUESTS
    /\ \A i \in 1..Len(ret) :
           /\ Cardinality(AllowedInWindow(ret[i].identifier, ret[i].resetTime))
                  <= RATE_LIMIT_MAX_REQUESTS
           /\ ret[i].allowed => ret[i].at <= ret[i].resetTime
    /\ \A i \in 2..Len(ret) :
           /\ ret[i].at >= ret[i - 1].at
           /\ \A id \in DOMAIN ret[i - 1].map :
                  id # ret[i].identifier =>
                      /\ id \in DOMAIN ret[i].map
                      /\ ret[i].map[id] = ret[i - 1].map[id]

\* Two clients have records, and the last call was refused, not for being
\* too fast, after 10 calls of its client were allowed in the window.
C25_Witness ==
    /\ Cardinality(DOMAIN rateLimitMap) = 2
    /\ ret # <<>>
    /\ ~ret[Len(ret)].allowed /\ ~ret[Len(ret)].tooFast
    /\ rateLimitMap[ret[Len(ret)].identifier].count = RATE_LIMIT_MAX_REQUESTS
    /\ Cardinality(AllowedInWindow(ret[Len(ret)].identifier, ret[Len(ret)].resetTime))
           = RATE_LIMIT_MAX_REQUESTS

\* The logged call of the same client before call j, or 0 if there is none
PreviousCall(j) ==
    IF \E i \in 1..(j - 1) : ret[i].identifier = ret[j].identifier
    THEN CHOOSE i \in 1..(j - 1) :
             /\ ret[i].identifier = ret[j].identifier
             /\ \A k \in (i + 1)..(j - 1) : ret[k].identifier # ret[j].identifier
    ELSE 0

\* C26: a call that arrives less than 1000 ms after the previous call of
\* the same client is not allowed, whatever the sequence of calls, also
\* across the end of a rate-limit window.
C26_Original ==
    \A j \in 1..Len(ret) :
        (/\ PreviousCall(j) # 0
         /\ ret[j].at - ret[PreviousCall(j)].at < MIN_REQUEST_INTERVAL_MS)
            => ~ret[j].allowed

\* C27: after any sequence of checkRateLimit calls every record holds at
\* most 20 timestamps, also when calls were refused as too fast.
C27_Original ==
    \A id \in DOMAIN rateLimitMap : Len(rateLimitMap[id].timestamps) <= 20

-----------------------------------------------------------------------------
\* filterRedundantTools on its own (specification SpecFilter)

MaxFiltered == 3     \* longest list given to filterRedundantTools

FilteredNames ==
    { "Descript", "descript", "Otter.ai", "Trint", "Runway", "Veo 3", "Apollo.io",
      "Smartlead + Clay", "Lusha", "PhantomBuster", "Waalaxy", "ChatGPT" }

NamedTools == { Tool(n, "per_user", Num(20), undefined) : n \in FilteredNames }

InitFilter ==
    /\ ServerStarted /\ PageLoaded
    /\ tasks = <<>>
    /\ recommendedTools \in SeqsUpTo(NamedTools, MaxFiltered)
    /\ teamSize = Num(5)
    /\ averageHourlyCost = Num(75)
    /\ revenueModel = <<>>
    /\ trainingCostOneTime = undefined
    /\ runsPerMonth = undefined
    /\ scenarioMultiplier = undefined
    /\ pc = "ready"
    /\ ret = <<>>

CallFilterRedundantTools ==
    /\ pc = "ready"
    /\ ret' = filterRedundantTools(recommendedTools)
    /\ pc' = "filterRedundantTools"
    /\ UNCHANGED <<args, web>>

NextFilter == CallFilterRedundantTools \/ Return

SpecFilter == InitFilter /\ [][NextFilter]_vars

\* out is in, with some elements left out and the others in the same order
IsSubList(out, in) ==
    \E f \in [1..Len(out) -> 1..Len(in)] :
        /\ \A i \in 1..Len(out) : in[f[i]] = out[i]
        /\ \A i, j \in 1..Len(out) : i < j => f[i] < f[j]

\* The four keyword sets of which only the first tool is kept
CategoryKeywords ==
    { highEndVideoKeywords, outreachSequencerKeywords, enrichmentKeywords,
      automationKeywords }

InCategory(tool, keywords) == includesSome(toLowerCase(tool.name), keywords)

\* C28: the output of filterRedundantTools is an order-preserving sub-list
\* of its input; no two of its tools have the same name up to case; at most
\* one of them matches each category keyword set; none contains
\* otter/trint/sonix when an input name contains 'descript'; and filtering
\* the output again returns it unchanged.
C28_FilteredList ==
    Returned("filterRedundantTools") =>
        /\ IsSubList(ret, recommendedTools)
        /\ \A i, j \in 1..Len(ret) :
               i # j => toLowerCase(ret[i].name) # toLowerCase(ret[j].name)
        /\ \A keywords \in CategoryKeywords :
               Cardinality({ i \in 1..Len(ret) : InCategory(ret[i], keywords) }) <= 1
        /\ hasDescript(recommendedTools) =>
               \A i \in 1..Len(ret) : ~InCategory(ret[i], transcriptionOnlyTools)
        /\ filterRedundantTools(ret) = ret

\* filterRedundantTools has returned one tool of three: the input has
\* Descript under two spellings and a transcription-only tool.
C28_Witness ==
    /\ Returned("filterRedundantTools")
    /\ Len(recommendedTools) = 3 /\ Len(ret) = 1
    /\ recommendedTools[1].name # recommendedTools[2].name
    /\ toLowerCase(recommendedTools[1].name) = toLowerCase(recommendedTools[2].name)
    /\ hasDescript(recommendedTools)
    /\ InCategory(recommendedTools[3], transcriptionOnlyTools)

\* C29: for each category, when the input of filterRedundantTools has a
\* tool of that category, the output has the first such tool of the input,
\* and the tools of the category that it leaves out come later in the input.
C29_Original ==
    Returned("filterRedundantTools") =>
        \A keywords \in CategoryKeywords :
            \A i \in 1..Len(recommendedTools) :
                (/\ InCategory(recommendedTools[i], keywords)
                 /\ \A k \in 1..(i - 1) : ~InCategory(recommendedTools[k], keywords))
                    => \E j \in 1..Len(ret) : ret[j] = recommendedTools[i]

-----------------------------------------------------------------------------
\* The page and the endpoint together (specification SpecPage): handleGenerate
\* sends the form's values, POST checks them and asks the generator, and
\* handleGenerate goes on with the response.  pc is the await or call the
\* run in progress has reached; ret is the value in flight at that point.

MaxClock == 3000     \* no request is handled after this time (ms)

validDepartmentTypes ==
    { "B2B SaaS / Software", "B2B Services (Agency or Consulting)",
      "B2B Product / Manufacturing", "B2C / Commerce / Marketplace" }

validWorkflows ==
    { "LinkedIn content + campaigns", "LinkedIn outreach + list building",
      "Email nurture + sequences", "Podcast -> content multipliers",
      "AI video creation", "Video editing + repurposing",
      "Demand gen reporting + attribution", "Ad variant + creative testing",
      "Sales enablement assets", "Trade shows + conferences",
      "Webinars + online events", "Live events (LinkedIn Live, virtual sessions)" }

\* Number.isInteger(x)
IsInteger(x) == IsFinite(x) /\ (x = Zero \/ x[2] >= 0)

\* Number(v) for a JSON number or a missing field
Number(v) == IF v = undefined THEN NaN ELSE v

Invalid(message, bot) ==
    [valid |-> FALSE, error |-> message, isBot |-> bot, sanitized |-> <<>>]

\* A faulty variant: no upper limit on the team size.
validateInputs_NoUpperLimit(inputs) ==
    IF inputs.honeypot # ""
    THEN Invalid("Invalid request", TRUE)
    ELSE IF \/ inputs.departmentType = "" \/ inputs.primaryWorkflow = ""
            \/ inputs.teamSize = undefined \/ inputs.averageHourlyCost = undefined
    THEN Invalid("Missing required fields", FALSE)
    ELSE IF inputs.departmentType \notin validDepartmentTypes
    THEN Invalid("Invalid departmentType", FALSE)
    ELSE IF inputs.primaryWorkflow \notin validWorkflows
    THEN Invalid("Invalid primaryWorkflow", FALSE)
    ELSE IF \/ ~IsInteger(Number(inputs.teamSize))
            \/ Lt(Number(inputs.teamSize), One)
    THEN Invalid("teamSize must be an integer between 1 and 1000", FALSE)
    ELSE IF \/ IsNaN(Number(inputs.averageHourlyCost))
            \/ Lt(Number(inputs.averageHourlyCost), One)
            \/ Gt(Number(inputs.averageHourlyCost), Num(5000))
    THEN Invalid("averageHourlyCost must be between $1 and $5000", FALSE)
    ELSE [valid |-> TRUE, error |-> "", isBot |-> FALSE,
          sanitized |-> <<[departmentType    |-> inputs.departmentType,
                           primaryWorkflow   |-> inputs.primaryWorkflow,
                           teamSize          |-> Number(inputs.teamSize),
                           averageHourlyCost |-> Number(inputs.averageHourlyCost)]>>]

\* validateInputs(inputs): honeypot is "" when the field is not sent, and a
\* missing string field is ""
validateInputs(inputs) ==
    IF inputs.honeypot # ""
    THEN Invalid("Invalid request", TRUE)
    ELSE IF \/ inputs.departmentType = "" \/ inputs.primaryWorkflow = ""
            \/ inputs.teamSize = undefined \/ inputs.averageHourlyCost = undefined
    THEN Invalid("Missing required fields", FALSE)
    ELSE IF inputs.departmentType \notin validDepartmentTypes
    THEN Invalid("Invalid departmentType", FALSE)
    ELSE IF inputs.primaryWorkflow \notin validWorkflows
    THEN Invalid("Invalid primaryWorkflow", FALSE)
    ELSE IF \/ ~IsInteger(Number(inputs.teamSize))
            \/ Lt(Number(inputs.teamSize), One)
            \/ Gt(Number(inputs.teamSize), Num(1000))
    THEN Invalid("teamSize must be an integer between 1 and 1000", FALSE)
    ELSE IF \/ IsNaN(Number(inputs.averageHourlyCost))
            \/ Lt(Number(inputs.averageHourlyCost), One)
            \/ Gt(Number(inputs.averageHourlyCost), Num(5000))
    THEN Invalid("averageHourlyCost must be between $1 and $5000", FALSE)
    ELSE [valid |-> TRUE, error |-> "", isBot |-> FALSE,
          sanitized |-> <<[departmentType    |-> inputs.departmentType,
                           primaryWorkflow   |-> inputs.primaryWorkflow,
                           teamSize          |-> Number(inputs.teamSize),
                           averageHourlyCost |-> Number(inputs.averageHourlyCost)]>>]

\* What the form can submit: its selects hold valid values, teamSize is
\* parseInt(...) || 1 and averageHourlyCost is parseFloat(...) || 0
FormTeamSizes == { Num(-5), One, Num(1000), Num(1001) }
FormHourlyCosts == { Zero, Dec(1, 2), One, Num(5000), Num(5001) }
FormInputs ==
    [departmentType    : {"B2B SaaS / Software"},
     primaryWorkflow   : {"LinkedIn content + campaigns"},
     teamSize          : FormTeamSizes,
     averageHourlyCost : FormHourlyCosts,
     honeypot          : {""}]

\* Milliseconds from the previous request to the next one
FormGaps == {500, 1500}

\* What the generator answers to the page's requests
Answers ==
    { [tasks |-> <<>>, recommendedTools |-> <<>>,
       revenueModel |-> <<>>, confidencePct |-> Num(80)],
      [tasks |-> <<Task("draft", Num(10), Num(50), Num(40))>>,
       recommendedTools |-> <<Tool("Descript", "per_user", Num(20), undefined)>>,
       revenueModel |-> <<RevenueModel(Num(1000), Num(10))>>,
       confidencePct |-> Num(80)] }

\* The messages of the errors POST catches, after sanitizeError
CaughtErrors ==
    { "Service temporarily unavailable. Please try again later.",
      "An unexpected error occurred. Please try again." }

InitPage ==
    /\ ServerStarted /\ PageLoaded
    /\ tasks = <<>>
    /\ recommendedTools = <<>>
    /\ teamSize = undefined
    /\ averageHourlyCost = undefined
    /\ revenueModel = <<>>
    /\ trainingCostOneTime = undefined
    /\ runsPerMonth = undefined
    /\ scenarioMultiplier = undefined
    /\ pc = "ready"
    /\ ret = <<>>

\* handleGenerate(userInputs) up to `await fetch`: the submit button is
\* disabled while loading.
handleGenerate ==
    /\ pc = "ready"
    /\ ~home.loading
    /\ \E body \in FormInputs, gap \in FormGaps, bot \in BOOLEAN :
        /\ now + gap <= MaxClock
        /\ userInputs' = <<body>>
        /\ home' = [home EXCEPT !.loading = TRUE, !.error = <<>>, !.inputs = <<body>>]
        /\ arrivals' = Append(arrivals, [identifier |-> "10.0.0.1", at |-> now + gap,
                                         bot |-> bot, body |-> body])
    /\ pc' = "fetch"
    /\ UNCHANGED <<args, ret, rateLimitMap, now>>

Failed(status, message) == [status |-> status, error |-> message]

\* What POST answers before it asks the generator, or <<>> if it goes on:
\* after the rate limit, the validation (the page's body is far below
\* MAX_REQUEST_SIZE and the API key is configured)
refusal(checked, validation) ==
    IF ~checked.allowed
    THEN IF checked.tooFast
         THEN <<Failed(403, "Invalid request")>>
         ELSE <<Failed(429, "Too many requests. Please try again later.")>>
    ELSE IF ~validation.valid \/ validation.sanitized = <<>>
    THEN IF validation.isBot
         THEN <<Failed(403, "Invalid request")>>
         ELSE <<Failed(400, validation.error)>>
    ELSE <<>>

\* POST up to its answer or to `await openai.chat.completions.create`
afterChecks(request, checked, refused) ==
    /\ rateLimitMap' = checked.map
    /\ IF refused # <<>>
       THEN ret' = refused[1] /\ pc' = "failed"
       ELSE ret' = validateInputs(request.body).sanitized[1] /\ pc' = "completion"

POST ==
    /\ pc = "fetch"
    /\ arrivals # <<>>
    /\ now' = arrivals[1].at
    /\ arrivals' = Tail(arrivals)
    /\ IF arrivals[1].bot
       THEN /\ ret' = Failed(403, "Invalid request")
            /\ pc' = "failed"
            /\ UNCHANGED rateLimitMap
       ELSE afterChecks(arrivals[1],
                        checkRateLimit(rateLimitMap, arrivals[1].identifier, arrivals[1].at),
                        refusal(checkRateLimit(rateLimitMap, arrivals[1].identifier,
                                               arrivals[1].at),
                                validateInputs(arrivals[1].body)))
    /\ UNCHANGED <<args, home, userInputs>>

\* The generator answers with a tool call, and POST parses it.
CompletionParsed ==
    /\ pc = "completion"
    /\ ret' \in Answers
    /\ pc' = "parsed"
    /\ UNCHANGED <<args, web>>

\* The generator call throws, or answers without the tool call.
CompletionFails ==
    /\ pc = "completion"
    /\ \E message \in CaughtErrors \cup {"Failed to get function call from OpenAI"} :
           ret' = Failed(500, message)
    /\ pc' = "failed"
    /\ UNCHANGED <<args, web>>

\* handleGenerate after `await fetch` when !response.ok: throw, catch, finally
handleGenerate_notOk ==
    /\ pc = "failed"
    /\ home' = [home EXCEPT !.error = <<ret.error>>, !.loading = FALSE]
    /\ userInputs' = <<>>
    /\ ret' = <<>>
    /\ pc' = "ready"
    /\ UNCHANGED <<args, rateLimitMap, now, arrivals>>

\* handleGenerate after `await fetch` when response.ok: setBenchmarks and the
\* call of generateScenarios
handleGenerate_ok ==
    /\ pc = "responded"
    /\ home' = [home EXCEPT !.benchmarks = <<ret>>]
    /\ tasks' = ret.tasks
    /\ recommendedTools' = ret.recommendedTools
    /\ teamSize' = userInputs[1].teamSize
    /\ averageHourlyCost' = userInputs[1].averageHourlyCost
    /\ revenueModel' = ret.revenueModel
    /\ trainingCostOneTime' = Num(5000)
    /\ runsPerMonth' = Num(10)
    /\ ret' = generateScenarios(ret.tasks, ret.recommendedTools, userInputs[1].teamSize,
                                userInputs[1].averageHourlyCost, ret.revenueModel,
                                Num(5000), Num(10))
    /\ pc' = "generateScenarios"
    /\ UNCHANGED <<scenarioMultiplier, rateLimitMap, now, arrivals, userInputs>>

\* generateScenarios has returned: setScenarios, finally
handleGenerate_scenarios ==
    /\ pc = "generateScenarios"
    /\ home' = [home EXCEPT !.scenarios = ret, !.loading = FALSE]
    /\ userInputs' = <<>>
    /\ ret' = <<>>
    /\ pc' = "ready"
    /\ UNCHANGED <<args, rateLimitMap, now, arrivals>>

NextPage ==
    \/ handleGenerate
    \/ POST
    \/ CompletionParsed
    \/ CompletionFails
    \/ RespondIncomplete
    \/ RespondBenchmarks
    \/ handleGenerate_notOk
    \/ handleGenerate_ok
    \/ handleGenerate_scenarios

SpecPage == InitPage /\ [][NextPage]_vars

\* Bodies a client can post: also a fractional, a missing and a non-numeric
\* team size, and a missing hourly cost
RequestBodies ==
    [departmentType    : {"B2B SaaS / Software"},
     primaryWorkflow   : {"LinkedIn content + campaigns"},
     teamSize          : FormTeamSizes \cup {Zero, Dec(5, 2), NaN, undefined},
     averageHourlyCost : FormHourlyCosts \cup {Num(-75), NaN, undefined},
     honeypot          : {""}]

TeamInRange(size, hourlyCost) ==
    /\ size # undefined /\ IsInteger(size)
    /\ Ge(size, One) /\ Le(size, Num(1000))
    /\ hourlyCost # undefined /\ ~IsNaN(hourlyCost)
    /\ Ge(hourlyCost, One) /\ Le(hourlyCost, Num(5000))

\* A request the rate limit lets through
Admitted == checkRateLimit(<<>>, "10.0.0.1", 0)

Refused(body) ==
    /\ ~validateInputs(body).valid
    /\ refusal(Admitted, validateInputs(body)) # <<>>
    /\ refusal(Admitted, validateInputs(body))[1].status >= 400

\* C21: validateInputs rejects every request whose teamSize is not an integer
\* in [1, 1000] or whose averageHourlyCost is not a number in [1, 5000], the
\* endpoint answers it with an error status, and the page calls
\* generateScenarios only after a successful response for the same inputs, so
\* the engine is never invoked with out-of-range team parameters.
C21_EngineInputsValidated ==
    /\ \A body \in RequestBodies :
           ~TeamInRange(body.teamSize, body.averageHourlyCost) => Refused(body)
    /\ pc = "failed" => ret.status >= 400
    /\ pc \in {"completion", "parsed", "responded"} =>
           TeamInRange(userInputs[1].teamSize, userInputs[1].averageHourlyCost)
    /\ Returned("generateScenarios") =>
           /\ home.benchmarks # <<>>
           /\ teamSize = userInputs[1].teamSize
           /\ averageHourlyCost = userInputs[1].averageHourlyCost
    /\ teamSize # undefined => TeamInRange(teamSize, averageHourlyCost)

\* A request with a team of 1001 is refused after the engine ran for a team
\* of 1000.
C21_Witness ==
    /\ pc = "failed" /\ ret.status = 400
    /\ userInputs[1].teamSize = Num(1001)
    /\ teamSize = Num(1000)

\* What the page shows: the condition of the results section of Home
Displayed == home.benchmarks # <<>> /\ Len(home.scenarios) > 0 /\ home.inputs # <<>>

\* C30: once loading is false the displayed scenarios were computed from the
\* benchmarks and the team parameters held in state, also after a request
\* that failed following an earlier success.
C30_Original ==
    (~home.loading /\ Displayed) =>
        home.scenarios = generateScenarios(home.benchmarks[1].tasks,
                                           home.benchmarks[1].recommendedTools,
                                           home.inputs[1].teamSize,
                                           home.inputs[1].averageHourlyCost,
                                           home.benchmarks[1].revenueModel,
                                           Num(5000), Num(10))

====
